---------------------------- MODULE Spec2Model ----------------------------
(***************************************************************************)
(* Timecode calculation and subclip extraction of man_subclip.             *)
(*                                                                         *)
(*   backend/src/utils/timecode.py            calculate_clip_timecode      *)
(*   backend/src/services/ffmpeg/subclip.py   SubclipExtractor             *)
(*   man_subclip/backend/src/services/gcs_streaming.py                     *)
(*                                            extract_clip_from_gcs_streaming *)
(*                                                                         *)
(* Times are whole seconds.  The code computes with Python floats; every   *)
(* operation modelled here is a comparison, an addition, a subtraction or  *)
(* a max/min, which are exact on the integers used.                        *)
(***************************************************************************)
EXTENDS Integers, Sequences, FiniteSets, TLC

\* ------------------------------------------------------------------ bounds
\* largest in/out point and duration drawn for calculate_clip_timecode
MaxSec == 6
\* largest padding drawn
MaxPad == 3
\* largest start_sec drawn for an extraction call
MaxStart == 2
\* largest end_sec drawn for an extraction call
MaxEnd == 3
\* largest pre_seek_buffer drawn for a double-seek call
MaxBuffer == 2
\* largest padding_sec drawn for a remote extraction call
MaxExPad == 2
\* seconds of wall-clock time that pass in one Tick of a running transcoder
TickSec == 300
\* wall-clock time after which the model stops watching a transcoder that
\* nothing ever stops
MaxElapsed == 600

\* the values of the docstring examples and of the tests
\* (timecode.py:29-33, tests/utils/test_timecode.py)
ExampleSecs == {10, 20, 58, 60}
ExamplePads == {5}

Max(a, b) == IF a >= b THEN a ELSE b
Min(a, b) == IF a <= b THEN a ELSE b

VARIABLES
    tc_args,     \* arguments of the pending/last calculate_clip_timecode call
    tc_ret,      \* what that call did: not called yet, returned or raised
    files,       \* the file system: path -> "absent" | "source" | "partial" | "complete"
    call,        \* the extraction call in progress or last finished
    proc,        \* the external transcoder process of that call
    outcome,     \* what the extraction call returned or raised
    fmt,         \* a format_timecode / parse_timecode evaluation
    par,         \* the local extraction calls that run concurrently, per caller
    meta,        \* an extract_metadata evaluation
    api,         \* the database and the last response of the clip API
    db           \* the Video and Clip tables, the requests in progress and the conversion tasks

vars == <<tc_args, tc_ret, files, call, proc, outcome, fmt, par, meta, api, db>>
tc_vars == <<tc_args, tc_ret>>
ex_vars == <<files, call, proc, outcome>>
aux_vars == <<fmt, par, meta, api, db>>

\* ============================================================ timecode.py
NotCalled == [status |-> "not_called", error |-> "", message |-> "", value |-> <<>>]
Returned(v) == [status |-> "returned", error |-> "", message |-> "", value |-> v]
Raised(e, m) == [status |-> "raised", error |-> e, message |-> m, value |-> <<>>]

FmtIdle == [pc |-> "idle", seconds |-> 0, formatted |-> FALSE, text |-> "", parsed |-> NotCalled]
NoProbe == [ok |-> FALSE, has_video |-> FALSE, rate |-> <<>>, r_frame_rate |-> <<>>, duration |-> <<>>]
MetaIdle == [pc |-> "idle", probe |-> NoProbe, ret |-> NotCalled]

\* calculate_clip_timecode with the end of the range left unclamped
calculate_clip_timecode_unclamped_end(in_sec, out_sec, padding_sec, video_duration) ==
    IF in_sec < 0 THEN
        Raised("ValueError", "in_sec must be >= 0")
    ELSE IF out_sec <= in_sec THEN
        Raised("ValueError", "out_sec must be > in_sec")
    ELSE IF out_sec > video_duration THEN
        Raised("ValueError", "out_sec cannot exceed video duration")
    ELSE IF padding_sec < 0 THEN
        Raised("ValueError", "padding_sec must be >= 0")
    ELSE
        LET start_sec == Max(0, in_sec - padding_sec)
            end_sec == out_sec + padding_sec
            duration_sec == end_sec - start_sec
        IN  Returned(<<start_sec, end_sec, duration_sec>>)

\* calculate_clip_timecode reporting the unpadded length as the duration
calculate_clip_timecode_raw_duration(in_sec, out_sec, padding_sec, video_duration) ==
    IF in_sec < 0 THEN
        Raised("ValueError", "in_sec must be >= 0")
    ELSE IF out_sec <= in_sec THEN
        Raised("ValueError", "out_sec must be > in_sec")
    ELSE IF out_sec > video_duration THEN
        Raised("ValueError", "out_sec cannot exceed video duration")
    ELSE IF padding_sec < 0 THEN
        Raised("ValueError", "padding_sec must be >= 0")
    ELSE
        LET start_sec == Max(0, in_sec - padding_sec)
            end_sec == Min(video_duration, out_sec + padding_sec)
            duration_sec == out_sec - in_sec
        IN  Returned(<<start_sec, end_sec, duration_sec>>)

\* calculate_clip_timecode testing the out-point against the duration only
\* after clamping, so that an out-point beyond the source is accepted
calculate_clip_timecode_late_check(in_sec, out_sec, padding_sec, video_duration) ==
    IF in_sec < 0 THEN
        Raised("ValueError", "in_sec must be >= 0")
    ELSE IF out_sec <= in_sec THEN
        Raised("ValueError", "out_sec must be > in_sec")
    ELSE IF Min(video_duration, out_sec) > video_duration THEN
        Raised("ValueError", "out_sec cannot exceed video duration")
    ELSE IF padding_sec < 0 THEN
        Raised("ValueError", "padding_sec must be >= 0")
    ELSE
        LET start_sec == Max(0, in_sec - padding_sec)
            end_sec == Min(video_duration, out_sec + padding_sec)
            duration_sec == end_sec - start_sec
        IN  Returned(<<start_sec, end_sec, duration_sec>>)

\* timecode.py:36-55
calculate_clip_timecode(in_sec, out_sec, padding_sec, video_duration) ==
    IF in_sec < 0 THEN
        Raised("ValueError", "in_sec must be >= 0")
    ELSE IF out_sec <= in_sec THEN
        Raised("ValueError", "out_sec must be > in_sec")
    ELSE IF out_sec > video_duration THEN
        Raised("ValueError", "out_sec cannot exceed video duration")
    ELSE IF padding_sec < 0 THEN
        Raised("ValueError", "padding_sec must be >= 0")
    ELSE
        LET start_sec == Max(0, in_sec - padding_sec)
            end_sec == Min(video_duration, out_sec + padding_sec)
            duration_sec == end_sec - start_sec
        IN  Returned(<<start_sec, end_sec, duration_sec>>)

TcSecs == (-1 .. MaxSec) \cup ExampleSecs
TcPads == (-1 .. MaxPad) \cup ExamplePads
TcArgs == [in_sec : TcSecs, out_sec : TcSecs, padding_sec : TcPads,
           video_duration : TcSecs]

\* a caller evaluates calculate_clip_timecode on its arguments
CallCalculateClipTimecode ==
    /\ tc_ret.status = "not_called"
    /\ tc_ret' = calculate_clip_timecode(tc_args.in_sec, tc_args.out_sec,
                                         tc_args.padding_sec, tc_args.video_duration)
    /\ UNCHANGED <<tc_args, ex_vars, aux_vars>>


\* ====================================================== the file system
\* SubclipExtractor.__init__ (subclip.py:41-42): the base directory of clips
clips_base_path == "/nas/clips"
ClipIds == {"clip-1", "clip-2"}
Extensions == {".mp4"}
\* an output path that does not depend on the clip id
OutputPathOf_ignores_clip_id(clip_id, output_extension) ==
    clips_base_path \o "/" \o "clip-1" \o output_extension

\* subclip.py:80-81 and 165-166: output_path = clips_base_path / f"{clip_id}{ext}"
OutputPathOf(clip_id, output_extension) ==
    clips_base_path \o "/" \o clip_id \o output_extension
OutputPaths == {OutputPathOf(id, ext) : id \in ClipIds, ext \in Extensions}
\* one source that exists and one that does not (tests/test_subclip.py:30-34, 65)
ExistingInput == "/nas/originals/original.mp4"
MissingInput == "/nonexistent/video.mp4"
InputPaths == {ExistingInput, MissingInput}
\* gcs_streaming.py:175: output_path = f"{output_dir}/{video_id}/master.m3u8"
ProxyDirs == {"/nas/proxy"}
VideoIds == {"video-1"}
ProxyPathOf(output_dir, video_id) == output_dir \o "/" \o video_id \o "/master.m3u8"
ProxyPaths == {ProxyPathOf(dir, id) : dir \in ProxyDirs, id \in VideoIds}
Paths == InputPaths \cup OutputPaths \cup ProxyPaths
\* an object of the bucket (gcs_streaming.py:19)
GcsPaths == {"video.mp4"}

\* os.path.exists / Path.exists
Exists(fs, path) == fs[path] # "absent"
\* Path.unlink
Unlink(fs, path) == [fs EXCEPT ![path] = "absent"]

\* ================================================= the extraction calls
NoCall == [op |-> "none", pc |-> "idle", output_path |-> "", args |-> <<>>]
\* proc.state: "none" | "running" | "exited_zero" | "exited_nonzero" | "killed"
\* proc.wrote: the process has written to its output file
NoProc == [spawned |-> 0, state |-> "none", cmd |-> <<>>, elapsed |-> 0,
           wrote |-> FALSE, signed_urls |-> 0]
Pending == [status |-> "pending", error |-> "", message |-> "", result |-> <<>>]
ExReturned(r) == [status |-> "returned", error |-> "", message |-> "", result |-> <<r>>]
ExRaised(e, m) == [status |-> "raised", error |-> e, message |-> m, result |-> <<>>]

\* subprocess.run(..., timeout=300): subclip.py:198 and gcs_streaming.py:95
DoubleSeekTimeout == 300
StreamingTimeout == 300
\* generate_signed_url(gcs_path, expiration_minutes=10): gcs_streaming.py:67
ExtractUrlMinutes == 10
\* generate_signed_url(gcs_path, expiration_minutes=5): gcs_streaming.py:120
ProbeUrlMinutes == 5
\* generate_signed_url(gcs_path, expiration_minutes=120): gcs_streaming.py:173
ProxyUrlMinutes == 120
\* a header probe allowed to run as long as its URL lives
ProbeTimeout_as_url_validity == ProbeUrlMinutes * 60
\* subprocess.run(..., timeout=30): gcs_streaming.py:132
ProbeTimeout == 30
\* subprocess.run(..., timeout=3600): gcs_streaming.py:195
ProxyTimeout == 3600

\* the validation of extract_subclip without the test of start_sec
ValidateSingleSeek_no_start_check(fs, input_path, start_sec, end_sec) ==
    IF ~Exists(fs, input_path) THEN "Input file not found"
    ELSE IF end_sec <= start_sec THEN "end_sec must be > start_sec"
    ELSE ""

\* subclip.py:70-77: the validation of extract_subclip; "" when the call is accepted
ValidateSingleSeek(fs, input_path, start_sec, end_sec) ==
    IF ~Exists(fs, input_path) THEN "Input file not found"
    ELSE IF start_sec < 0 THEN "start_sec must be >= 0"
    ELSE IF end_sec <= start_sec THEN "end_sec must be > start_sec"
    ELSE ""

\* subclip.py:155-162: the validation of extract_subclip_double_seek
ValidateDoubleSeek(fs, input_path, start_sec, end_sec) ==
    IF ~Exists(fs, input_path) THEN "Input file not found"
    ELSE IF start_sec < 0 THEN "start_sec must be >= 0"
    ELSE IF end_sec <= start_sec THEN "end_sec must be > start_sec"
    ELSE ""

\* the single-seek command with an encoder instead of stream copy
SingleSeekCmd_reencode(input_path, start_sec, end_sec, output_path) ==
    [program |-> "ffmpeg", ss |-> start_sec, to |-> end_sec, i |-> input_path,
     c |-> "libx264", avoid_negative_ts |-> "make_zero", movflags |-> "+faststart",
     y |-> TRUE, output |-> output_path]

\* subclip.py:87-98: ffmpeg.input(input_path, ss=, to=) -> ffmpeg.output(c=, ...)
\* run with overwrite_output=True
SingleSeekCmd(input_path, start_sec, end_sec, output_path) ==
    [program |-> "ffmpeg", ss |-> start_sec, to |-> end_sec, i |-> input_path,
     c |-> "copy", avoid_negative_ts |-> "make_zero", movflags |-> "+faststart",
     y |-> TRUE, output |-> output_path]

\* the double seek with the whole buffer as its second seek
DoubleSeekCmd_buffer_as_second_seek(input_path, start_sec, end_sec, pre_seek_buffer, output_path) ==
    LET first_seek == Max(0, start_sec - pre_seek_buffer)
        second_seek == pre_seek_buffer
        duration == end_sec - start_sec
    IN  [program |-> "ffmpeg", ss |-> first_seek, i |-> input_path,
         ss2 |-> second_seek, t |-> duration, c |-> "copy",
         avoid_negative_ts |-> "make_zero", movflags |-> "+faststart",
         y |-> TRUE, output |-> output_path]

\* subclip.py:170-190
DoubleSeekCmd(input_path, start_sec, end_sec, pre_seek_buffer, output_path) ==
    LET first_seek == Max(0, start_sec - pre_seek_buffer)
        second_seek == start_sec - first_seek
        duration == end_sec - start_sec
    IN  [program |-> "ffmpeg", ss |-> first_seek, i |-> input_path,
         ss2 |-> second_seek, t |-> duration, c |-> "copy",
         avoid_negative_ts |-> "make_zero", movflags |-> "+faststart",
         y |-> TRUE, output |-> output_path]

\* gcs_streaming.py:14-36: the pre-signed URL of an object
generate_signed_url(gcs_path, expiration_minutes) ==
    [url |-> "https://storage.googleapis.com/" \o gcs_path,
     expiration_minutes |-> expiration_minutes]

\* the remote command with the padding added once
StreamingCmd_single_padding(signed_url, start_sec, end_sec, padding_sec, output_path) ==
    LET actual_start == Max(0, start_sec - padding_sec)
        actual_duration == (end_sec - start_sec) + padding_sec
    IN  [program |-> "settings.ffmpeg_path", seekable |-> 1, ss |-> actual_start,
         i |-> signed_url.url, t |-> actual_duration, c |-> "copy",
         avoid_negative_ts |-> "make_zero", y |-> TRUE, output |-> output_path]

\* gcs_streaming.py:70-88
StreamingCmd(signed_url, start_sec, end_sec, padding_sec, output_path) ==
    LET actual_start == Max(0, start_sec - padding_sec)
        actual_duration == (end_sec - start_sec) + (2 * padding_sec)
    IN  [program |-> "settings.ffmpeg_path", seekable |-> 1, ss |-> actual_start,
         i |-> signed_url.url, t |-> actual_duration, c |-> "copy",
         avoid_negative_ts |-> "make_zero", y |-> TRUE, output |-> output_path]

Spawn(cmd, urls) ==
    [spawned |-> 1, state |-> "running", cmd |-> <<cmd>>, elapsed |-> 0,
     wrote |-> FALSE, signed_urls |-> urls]

\* subclip.py:44-98: extract_subclip up to the start of the transcoder
ExtractSubclip(clip_id, input_path, start_sec, end_sec, output_extension) ==
    LET err == ValidateSingleSeek(files, input_path, start_sec, end_sec)
        output_path == OutputPathOf(clip_id, output_extension)
        args == [clip_id |-> clip_id, input_path |-> input_path,
                 start_sec |-> start_sec, end_sec |-> end_sec,
                 output_extension |-> output_extension]
    IN  /\ call.pc # "running"
        /\ IF err # ""
           THEN /\ call' = [op |-> "extract_subclip", pc |-> "raised",
                            output_path |-> output_path, args |-> <<args>>]
                /\ proc' = NoProc
                /\ outcome' = ExRaised("ValueError", err)
           ELSE /\ call' = [op |-> "extract_subclip", pc |-> "running",
                            output_path |-> output_path, args |-> <<args>>]
                /\ proc' = Spawn(SingleSeekCmd(input_path, start_sec, end_sec,
                                               output_path), 0)
                /\ outcome' = Pending
        /\ UNCHANGED <<files, tc_vars, aux_vars>>

\* subclip.py:125-199: extract_subclip_double_seek up to the start of the transcoder
ExtractSubclipDoubleSeek(clip_id, input_path, start_sec, end_sec, output_extension, pre_seek_buffer) ==
    LET err == ValidateDoubleSeek(files, input_path, start_sec, end_sec)
        output_path == OutputPathOf(clip_id, output_extension)
        args == [clip_id |-> clip_id, input_path |-> input_path,
                 start_sec |-> start_sec, end_sec |-> end_sec,
                 output_extension |-> output_extension,
                 pre_seek_buffer |-> pre_seek_buffer]
    IN  /\ call.pc # "running"
        /\ IF err # ""
           THEN /\ call' = [op |-> "extract_subclip_double_seek", pc |-> "raised",
                            output_path |-> output_path, args |-> <<args>>]
                /\ proc' = NoProc
                /\ outcome' = ExRaised("ValueError", err)
           ELSE /\ call' = [op |-> "extract_subclip_double_seek", pc |-> "running",
                            output_path |-> output_path, args |-> <<args>>]
                /\ proc' = Spawn(DoubleSeekCmd(input_path, start_sec, end_sec,
                                               pre_seek_buffer, output_path), 0)
                /\ outcome' = Pending
        /\ UNCHANGED <<files, tc_vars, aux_vars>>

\* gcs_streaming.py:39-96: extract_clip_from_gcs_streaming up to the start of the
\* transcoder; the function validates nothing
ExtractClipFromGcsStreaming(gcs_path, start_sec, end_sec, output_path, padding_sec) ==
    LET signed_url == generate_signed_url(gcs_path, ExtractUrlMinutes)
        args == [gcs_path |-> gcs_path, start_sec |-> start_sec,
                 end_sec |-> end_sec, output_path |-> output_path,
                 padding_sec |-> padding_sec]
    IN  /\ call.pc # "running"
        /\ call' = [op |-> "extract_clip_from_gcs_streaming", pc |-> "running",
                    output_path |-> output_path, args |-> <<args>>]
        /\ proc' = Spawn(StreamingCmd(signed_url, start_sec, end_sec, padding_sec,
                                      output_path), 1)
        /\ outcome' = Pending
        /\ UNCHANGED <<files, tc_vars, aux_vars>>

\* ============================================ the external transcoder
\* the transcoder opens its output file and writes to it while it runs
\* (-y / overwrite_output: an existing file is replaced)
ToolWritesOutput ==
    /\ call.pc = "running"
    /\ call.output_path \in Paths
    /\ files[call.output_path] # "partial"
    /\ files' = [files EXCEPT ![call.output_path] = "partial"]
    /\ proc' = [proc EXCEPT !.wrote = TRUE]
    /\ UNCHANGED <<call, outcome, tc_vars, aux_vars>>

\* has the call put a timeout on its transcoder?  ffmpeg.run (subclip.py:98)
\* takes none; subprocess.run is given timeout=300 (subclip.py:194-199,
\* gcs_streaming.py:91-96)
HasTimeout(op) == op # "extract_subclip"
TimeoutOf(op) ==
    IF op = "extract_subclip_double_seek" THEN DoubleSeekTimeout
    ELSE IF op = "get_video_metadata_from_gcs_streaming" THEN ProbeTimeout
    ELSE IF op = "create_proxy_from_gcs_streaming" THEN ProxyTimeout
    ELSE StreamingTimeout
\* how long a transcoder of this call can be seen running
ElapsedLimit(op) == IF HasTimeout(op) THEN TimeoutOf(op) ELSE MaxElapsed

\* wall-clock time passes while the transcoder runs
Tick ==
    /\ call.pc = "running"
    /\ proc.elapsed < ElapsedLimit(call.op)
    /\ proc' = [proc EXCEPT !.elapsed = Min(@ + TickSec, ElapsedLimit(call.op))]
    /\ UNCHANGED <<files, call, outcome, tc_vars, aux_vars>>

ReturnCodes == {0, 1}
\* the file systems the transcoder can leave behind when it exits: with status 0
\* it has written its output (or, having written nothing, created no file);
\* with a non-zero status it leaves whatever it had written so far
ToolFinal(returncode, fs, output_path) ==
    IF returncode = 0
    THEN {[fs EXCEPT ![output_path] = "complete"]}
         \cup (IF fs[output_path] = "absent" THEN {fs} ELSE {})
    ELSE {fs}

ExitState(returncode) == IF returncode = 0 THEN "exited_zero" ELSE "exited_nonzero"

\* a cleanup that deletes nothing
SingleSeekCleanup_keeps_file(fs, output_path) == fs

\* subclip.py:115-116
SingleSeekCleanup(fs, output_path) ==
    IF Exists(fs, output_path) THEN Unlink(fs, output_path) ELSE fs

\* subclip.py:217-218
DoubleSeekCleanup(fs, output_path) ==
    IF Exists(fs, output_path) THEN Unlink(fs, output_path) ELSE fs

\* subclip.py:98-123: what extract_subclip does once ffmpeg.run is over;
\* ffmpeg.run raises ffmpeg.Error on a non-zero status, Path.stat raises
\* FileNotFoundError, which "except ffmpeg.Error" does not catch
SingleSeekComplete(returncode, fs, output_path, args) ==
    IF returncode # 0 THEN
        [files |-> SingleSeekCleanup(fs, output_path),
         outcome |-> ExRaised("ffmpeg.Error", "Failed to extract subclip")]
    ELSE IF ~Exists(fs, output_path) THEN
        [files |-> fs, outcome |-> ExRaised("FileNotFoundError", "stat")]
    ELSE
        [files |-> fs,
         outcome |-> ExReturned([file_path |-> output_path,
                                 duration_sec |-> args.end_sec - args.start_sec])]

\* the double-seek completion reporting the requested end as the duration
DoubleSeekComplete_end_as_duration(returncode, fs, output_path, cmd) ==
    IF returncode # 0 THEN
        [files |-> DoubleSeekCleanup(fs, output_path),
         outcome |-> ExRaised("Exception", "ffmpeg failed")]
    ELSE IF ~Exists(fs, output_path) THEN
        [files |-> DoubleSeekCleanup(fs, output_path),
         outcome |-> ExRaised("FileNotFoundError", "stat")]
    ELSE
        [files |-> fs,
         outcome |-> ExReturned([file_path |-> output_path,
                                 duration_sec |-> cmd.ss + cmd.ss2 + cmd.t,
                                 method |-> "double_seek"])]

\* subclip.py:201-219: what extract_subclip_double_seek does once
\* subprocess.run is over; "except Exception" catches every failure
DoubleSeekComplete(returncode, fs, output_path, cmd) ==
    IF returncode # 0 THEN
        [files |-> DoubleSeekCleanup(fs, output_path),
         outcome |-> ExRaised("Exception", "ffmpeg failed")]
    ELSE IF ~Exists(fs, output_path) THEN
        [files |-> DoubleSeekCleanup(fs, output_path),
         outcome |-> ExRaised("FileNotFoundError", "stat")]
    ELSE
        [files |-> fs,
         outcome |-> ExReturned([file_path |-> output_path,
                                 duration_sec |-> cmd.t,
                                 method |-> "double_seek"])]

\* the remote completion without the test of the exit status
StreamingComplete_ignores_returncode(returncode, fs, output_path, cmd) ==
    IF ~Exists(fs, output_path) THEN
        [files |-> fs, outcome |-> ExRaised("FileNotFoundError", "getsize")]
    ELSE
        [files |-> fs,
         outcome |-> ExReturned([success |-> TRUE,
                                 duration_sec |-> cmd.t,
                                 method |-> "streaming"])]

\* gcs_streaming.py:98-111: what extract_clip_from_gcs_streaming does once
\* subprocess.run is over; nothing is caught and nothing is deleted
StreamingComplete(returncode, fs, output_path, cmd) ==
    IF returncode # 0 THEN
        [files |-> fs, outcome |-> ExRaised("Exception", "ffmpeg failed")]
    ELSE IF ~Exists(fs, output_path) THEN
        [files |-> fs, outcome |-> ExRaised("FileNotFoundError", "getsize")]
    ELSE
        [files |-> fs,
         outcome |-> ExReturned([success |-> TRUE,
                                 duration_sec |-> cmd.t,
                                 method |-> "streaming"])]

Finish(r, state, wrote) ==
    /\ files' = r.files
    /\ outcome' = r.outcome
    /\ call' = [call EXCEPT !.pc = r.outcome.status]
    /\ proc' = [proc EXCEPT !.state = state, !.wrote = wrote]
    /\ UNCHANGED <<tc_vars, aux_vars>>

\* the transcoder of extract_subclip exits
SingleSeekToolExit ==
    /\ call.pc = "running"
    /\ call.op = "extract_subclip"
    /\ \E returncode \in ReturnCodes :
         \E fs \in ToolFinal(returncode, files, call.output_path) :
            Finish(SingleSeekComplete(returncode, fs, call.output_path, call.args[1]),
                   ExitState(returncode), proc.wrote \/ fs # files)

\* the transcoder of extract_subclip_double_seek exits
DoubleSeekToolExit ==
    /\ call.pc = "running"
    /\ call.op = "extract_subclip_double_seek"
    /\ \E returncode \in ReturnCodes :
         \E fs \in ToolFinal(returncode, files, call.output_path) :
            Finish(DoubleSeekComplete(returncode, fs, call.output_path, proc.cmd[1]),
                   ExitState(returncode), proc.wrote \/ fs # files)

\* subclip.py:194-199, 215-219: subprocess.run kills the transcoder after
\* timeout seconds and raises TimeoutExpired, which "except Exception" catches
DoubleSeekTimeoutExpired ==
    /\ call.pc = "running"
    /\ call.op = "extract_subclip_double_seek"
    /\ proc.elapsed >= DoubleSeekTimeout
    /\ Finish([files |-> DoubleSeekCleanup(files, call.output_path),
               outcome |-> ExRaised("TimeoutExpired", "timed out")], "killed",
              proc.wrote)

\* the transcoder of extract_clip_from_gcs_streaming exits
StreamingToolExit ==
    /\ call.pc = "running"
    /\ call.op = "extract_clip_from_gcs_streaming"
    /\ \E returncode \in ReturnCodes :
         \E fs \in ToolFinal(returncode, files, call.output_path) :
            Finish(StreamingComplete(returncode, fs, call.output_path, proc.cmd[1]),
                   ExitState(returncode), proc.wrote \/ fs # files)

\* gcs_streaming.py:91-96: subprocess.run kills the transcoder after timeout
\* seconds and raises TimeoutExpired, which propagates
StreamingTimeoutExpired ==
    /\ call.pc = "running"
    /\ call.op = "extract_clip_from_gcs_streaming"
    /\ proc.elapsed >= StreamingTimeout
    /\ Finish([files |-> files,
               outcome |-> ExRaised("TimeoutExpired", "timed out")], "killed",
              proc.wrote)

\* ======================================================= specifications
StartSecs == -1 .. MaxStart
EndSecs == 1 .. MaxEnd
Buffers == -1 .. MaxBuffer
Paddings == 0 .. MaxExPad

TcIdle == [in_sec |-> 0, out_sec |-> 0, padding_sec |-> 0, video_duration |-> 0]

\* the file system once SubclipExtractor is constructed: the source is there,
\* the clips directory is empty
InitFiles ==
    [p \in Paths |-> IF p = ExistingInput THEN "source" ELSE "absent"]

InitExtraction ==
    /\ files = InitFiles
    /\ call = NoCall
    /\ proc = NoProc
    /\ outcome = Pending

\* ------------------------------------------- concurrent local callers
\* request threads that share one SubclipExtractor and one file system;
\* each extracts one clip, under a clip id of its own (clips.py:68)
Callers == {1, 2}
ClipOf == [c \in Callers |-> IF c = 1 THEN "clip-1" ELSE "clip-2"]
\* tool: "none" | "running" | "exited" | "killed"; produced: what the
\* transcoder left at the output path when it exited; touched: the paths this
\* caller (its transcoder included) has written or deleted
ParCallIdle(c) ==
    [pc |-> "idle", op |-> "none", clip_id |-> ClipOf[c], output_path |-> "",
     args |-> <<>>, cmd |-> <<>>, tool |-> "none", rc |-> 0, produced |-> "",
     touched |-> {}, concurrent |-> FALSE, outcome |-> Pending]
ParIdle == [base |-> clips_base_path, calls |-> [c \in Callers |-> ParCallIdle(c)]]

\* ------------------------------------------------- the clip API and its DB
\* the rows of the videos table: one video whose original is on the NAS and
\* one whose original is gone; "video-404" is in no row
DbVideoIds == {"video-1", "video-2"}
RequestVideoIds == DbVideoIds \cup {"video-404"}
ApiVideos(duration_sec) ==
    [id \in DbVideoIds |->
        [original_path |-> IF id = "video-1" THEN ExistingInput ELSE MissingInput,
         duration_sec |-> duration_sec]]
NoResponse == [status |-> 0, detail |-> "", clip |-> <<>>]
\* before: the Clip rows and the files as they were when the last request came
ApiIdle ==
    [videos |-> ApiVideos(60), clips |-> {}, request |-> <<>>,
     response |-> NoResponse, cmd |-> <<>>,
     before |-> [clips |-> {}, files |-> InitFiles]]


\* ---- the tables, the requests being handled and the conversion tasks
MaxTasks == 2
TaskIds == 1 .. MaxTasks
NULL == "NULL"
\* pc: "free" | "scheduled" | "converting"
TaskFree == [pc |-> "free", video_id |-> "", by |-> 0]
\* pc: "idle" | "admitted" | "extracting" | "done"; video_new: the Video row
\* was added by this request; extracted: the request has called the extractor
RequestIdle ==
    [op |-> "", pc |-> "idle", video_id |-> "", video_new |-> FALSE,
     gcs_path |-> "", start_sec |-> 0, end_sec |-> 0, clip_id |-> "",
     extracted |-> FALSE,
     response |-> [status |-> 0, detail |-> "", proxy_status |-> ""]]
NoRows == [id \in {} |-> NULL]
\* uuids: the ids uuid.uuid4() has handed out, never handed out again
DbIdle ==
    [videos |-> NoRows, clips |-> {}, uuids |-> {},
     req |-> [r \in Callers |-> RequestIdle],
     tasks |-> [t \in TaskIds |-> TaskFree]]

\* nothing else is going on
InitAux ==
    /\ fmt = FmtIdle
    /\ par = ParIdle
    /\ meta = MetaIdle
    /\ api = ApiIdle
    /\ db = DbIdle

\* calculate_clip_timecode on every argument tuple of the grid
InitTimecode ==
    /\ tc_args \in TcArgs
    /\ tc_ret = NotCalled
    /\ InitExtraction
    /\ InitAux

NextTimecode == CallCalculateClipTimecode

SpecTimecode == InitTimecode /\ [][NextTimecode]_vars

\* the extraction calls, one after the other
Init ==
    /\ tc_args = TcIdle
    /\ tc_ret = NotCalled
    /\ InitExtraction
    /\ InitAux

Next ==
    \/ \E clip_id \in ClipIds, input_path \in InputPaths, start_sec \in StartSecs,
          end_sec \in EndSecs, output_extension \in Extensions :
         ExtractSubclip(clip_id, input_path, start_sec, end_sec, output_extension)
    \/ \E clip_id \in ClipIds, input_path \in InputPaths, start_sec \in StartSecs,
          end_sec \in EndSecs, output_extension \in Extensions,
          pre_seek_buffer \in Buffers :
         ExtractSubclipDoubleSeek(clip_id, input_path, start_sec, end_sec,
                                  output_extension, pre_seek_buffer)
    \/ \E gcs_path \in GcsPaths, start_sec \in StartSecs, end_sec \in EndSecs,
          output_path \in OutputPaths, padding_sec \in Paddings :
         ExtractClipFromGcsStreaming(gcs_path, start_sec, end_sec, output_path,
                                     padding_sec)
    \/ ToolWritesOutput
    \/ Tick
    \/ SingleSeekToolExit
    \/ DoubleSeekToolExit
    \/ DoubleSeekTimeoutExpired
    \/ StreamingToolExit
    \/ StreamingTimeoutExpired

Spec == Init /\ [][Next]_vars

\* ------------------------------------------------------------- typing
TypeOK ==
    /\ files \in [Paths -> {"absent", "source", "partial", "complete"}]
    /\ call.pc \in {"idle", "running", "returned", "raised"}
    /\ proc.spawned \in 0 .. 1
    /\ outcome.status \in {"pending", "returned", "raised"}

\* ================================================================ claims
TcCalled == tc_ret.status # "not_called"
\* the inputs calculate_clip_timecode accepts
TcValid ==
    /\ tc_args.in_sec >= 0
    /\ tc_args.out_sec > tc_args.in_sec
    /\ tc_args.out_sec <= tc_args.video_duration
    /\ tc_args.padding_sec >= 0

\* C1: every accepted input of calculate_clip_timecode (in_sec >= 0,
\* out_sec > in_sec, out_sec <= video_duration, padding_sec >= 0, whatever the
\* padding) returns, and returns 0 <= start_sec < end_sec <= video_duration.
C1_ValidInputsStayInBounds ==
    (TcCalled /\ TcValid) =>
        /\ tc_ret.status = "returned"
        /\ 0 <= tc_ret.value[1]
        /\ tc_ret.value[1] < tc_ret.value[2]
        /\ tc_ret.value[2] <= tc_args.video_duration

\* a padding larger than the room on both sides of the range was accepted
C1_Witness ==
    /\ tc_ret.status = "returned"
    /\ tc_args.padding_sec > tc_args.in_sec
    /\ tc_args.out_sec + tc_args.padding_sec > tc_args.video_duration

\* C2: on success calculate_clip_timecode returns exactly
\* start_sec = max(0, in_sec - padding_sec),
\* end_sec = min(video_duration, out_sec + padding_sec) and
\* duration_sec = end_sec - start_sec; (10,20,3,60) gives (7,23,16) and
\* (2,58,5,60) gives (0,60,60).
C2_ReturnsPaddedClampedRange ==
    /\ tc_ret.status = "returned" =>
          LET lo == tc_args.in_sec - tc_args.padding_sec
              hi == tc_args.out_sec + tc_args.padding_sec
              s == IF lo > 0 THEN lo ELSE 0
              e == IF hi < tc_args.video_duration THEN hi ELSE tc_args.video_duration
          IN  tc_ret.value = <<s, e, e - s>>
    /\ (TcCalled /\ tc_args = [in_sec |-> 10, out_sec |-> 20, padding_sec |-> 3,
                               video_duration |-> 60])
          => tc_ret = Returned(<<7, 23, 16>>)
    /\ (TcCalled /\ tc_args = [in_sec |-> 2, out_sec |-> 58, padding_sec |-> 5,
                               video_duration |-> 60])
          => tc_ret = Returned(<<0, 60, 60>>)

\* the boundary example of the docstring, clamped at both ends
C2_Witness ==
    /\ tc_args = [in_sec |-> 2, out_sec |-> 58, padding_sec |-> 5,
                  video_duration |-> 60]
    /\ tc_ret.status = "returned"

\* C3: calculate_clip_timecode raises ValueError and returns no tuple whenever
\* in_sec < 0, out_sec <= in_sec, out_sec > video_duration or padding_sec < 0;
\* the duration check is on the raw out-point, so it fails with padding 0 too.
C3_InvalidInputsRaise ==
    (TcCalled /\ ~TcValid) =>
        /\ tc_ret.status = "raised"
        /\ tc_ret.error = "ValueError"
        /\ tc_ret.value = <<>>

\* an out-point beyond the duration was refused although nothing was padded
C3_Witness ==
    /\ tc_ret.status = "raised"
    /\ tc_args.in_sec >= 0
    /\ tc_args.out_sec > tc_args.in_sec
    /\ tc_args.padding_sec = 0
    /\ tc_args.out_sec > tc_args.video_duration

\* ------------------------------------------------------- extraction
LocalOps == {"extract_subclip", "extract_subclip_double_seek"}
Started == proc.spawned = 1

\* the arguments a local strategy must refuse, in the file system fs
LocalInvalid(fs, a) ==
    \/ fs[a.input_path] = "absent"
    \/ a.start_sec < 0
    \/ a.end_sec <= a.start_sec

\* C4: a call of extract_subclip or extract_subclip_double_seek with a
\* non-existent input_path, start_sec < 0 or end_sec <= start_sec raises
\* ValueError before any transcoder is spawned and creates, modifies or
\* deletes no file.
C4_InvalidLocalCallTouchesNothing ==
    [][(/\ call.pc # "running"
        /\ call'.op \in LocalOps
        /\ LocalInvalid(files, call'.args[1]))
       => (/\ call'.pc = "raised"
           /\ outcome'.status = "raised"
           /\ outcome'.error = "ValueError"
           /\ proc'.spawned = 0
           /\ proc'.state = "none"
           /\ files' = files)]_vars

\* a double-seek call was refused while the clip of an earlier call was on disk
C4_Witness ==
    /\ call.op = "extract_subclip_double_seek"
    /\ call.pc = "raised"
    /\ outcome.error = "ValueError"
    /\ proc.spawned = 0
    /\ files[call.output_path] = "complete"

\* C5: when the transcoder of a local strategy fails, possibly after writing
\* part of the output, the file at base/<clip_id><ext> is deleted before the
\* error is raised: no file is at the output path of a failed local call.
C5_FailedLocalCallLeavesNoFile ==
    (call.op \in LocalOps /\ call.pc = "raised" /\ Started)
        => files[call.output_path] = "absent"

\* the transcoder of extract_subclip wrote to its output and then failed
C5_Witness ==
    /\ call.op = "extract_subclip"
    /\ call.pc = "raised"
    /\ proc.state = "exited_nonzero"
    /\ proc.wrote
    /\ outcome.error = "ffmpeg.Error"

\* C6: an extraction call ends either with a result, and then the transcoder
\* exited with status 0 and the output file is at the output path, whole, or
\* with an error and no result; no result is returned for a failed or partial
\* extraction.
C6_ResultOnlyOnSuccess ==
    /\ call.pc = "returned" <=> outcome.status = "returned"
    /\ call.pc = "raised" <=> outcome.status = "raised"
    /\ outcome.status = "returned" =>
          /\ Len(outcome.result) = 1
          /\ outcome.error = ""
          /\ proc.state = "exited_zero"
          /\ files[call.output_path] = "complete"
    /\ outcome.status = "raised" =>
          /\ Len(outcome.result) = 0
          /\ outcome.error # ""
    /\ outcome.status = "pending" => Len(outcome.result) = 0
    /\ proc.state \in {"exited_nonzero", "killed"} => outcome.status = "raised"

\* the remote extractor returned a result
C6_Witness ==
    /\ call.op = "extract_clip_from_gcs_streaming"
    /\ outcome.status = "returned"
    /\ proc.wrote

\* C7: each of the three extraction calls bounds its transcoder with a
\* timeout and never retries: no transcoder is seen running for longer than
\* the timeout, and a call spawns at most one process.
C7_TranscoderBoundedByTimeout ==
    /\ call.pc = "running" => proc.elapsed <= Max(DoubleSeekTimeout, StreamingTimeout)
    /\ proc.spawned <= 1

\* C8: whenever extract_clip_from_gcs_streaming fails (non-zero exit or
\* timeout) no file is at output_path afterwards.
C8_FailedRemoteCallLeavesNoFile ==
    (call.op = "extract_clip_from_gcs_streaming" /\ call.pc = "raised")
        => files[call.output_path] = "absent"

\* C9: for every accepted call of extract_subclip_double_seek with
\* pre_seek_buffer >= 0 the transcoder gets
\* first_seek = max(0, start_sec - pre_seek_buffer) and
\* second_seek = start_sec - first_seek, so first_seek >= 0,
\* 0 <= second_seek <= pre_seek_buffer, first_seek + second_seek = start_sec,
\* and the duration end_sec - start_sec; when start_sec < pre_seek_buffer,
\* first_seek = 0 and second_seek = start_sec.
C9_DoubleSeekArithmetic ==
    (call.op = "extract_subclip_double_seek" /\ Started
        /\ call.args[1].pre_seek_buffer >= 0)
    => LET a == call.args[1]
           cmd == proc.cmd[1]
           back == a.start_sec - a.pre_seek_buffer
       IN  /\ cmd.ss = IF back > 0 THEN back ELSE 0
           /\ cmd.ss2 = a.start_sec - cmd.ss
           /\ cmd.ss >= 0
           /\ 0 <= cmd.ss2 /\ cmd.ss2 <= a.pre_seek_buffer
           /\ cmd.ss + cmd.ss2 = a.start_sec
           /\ cmd.t = a.end_sec - a.start_sec
           /\ cmd.ss + cmd.ss2 + cmd.t = a.end_sec
           /\ a.start_sec < a.pre_seek_buffer =>
                 (cmd.ss = 0 /\ cmd.ss2 = a.start_sec)

\* a double seek that starts closer to the beginning than the buffer
C9_Witness ==
    /\ call.op = "extract_subclip_double_seek"
    /\ Started
    /\ call.args[1].start_sec > 0
    /\ call.args[1].start_sec < call.args[1].pre_seek_buffer

\* C10: the remote extractor seeks to max(0, start_sec - padding_sec),
\* extracts for (end_sec - start_sec) + 2 * padding_sec, whatever the length
\* of the source, and on success reports that length as duration_sec.
C10_RemotePaddingUnclamped ==
    (call.op = "extract_clip_from_gcs_streaming" /\ Started)
    => LET a == call.args[1]
           cmd == proc.cmd[1]
           back == a.start_sec - a.padding_sec
       IN  /\ cmd.ss = IF back > 0 THEN back ELSE 0
           /\ cmd.t = (a.end_sec - a.start_sec) + 2 * a.padding_sec
           /\ outcome.status = "returned" =>
                 outcome.result[1].duration_sec
                    = (a.end_sec - a.start_sec) + 2 * a.padding_sec

\* the remote extractor succeeded with a padding that reaches before 0
C10_Witness ==
    /\ call.op = "extract_clip_from_gcs_streaming"
    /\ outcome.status = "returned"
    /\ call.args[1].padding_sec > call.args[1].start_sec
    /\ call.args[1].start_sec > 0

\* the method tag of a result, "" when the result carries none
MethodOf(r) == IF "method" \in DOMAIN r THEN r.method ELSE ""

C12_StreamCopyFlags ==
    Started =>
        LET cmd == proc.cmd[1]
        IN  /\ cmd.c = "copy"
            /\ cmd.avoid_negative_ts = "make_zero"
            /\ call.op \in LocalOps =>
                  /\ "movflags" \in DOMAIN cmd
                  /\ cmd.movflags = "+faststart"
                  /\ cmd.y

\* a double-seek transcoder was started
C12_Witness ==
    /\ call.op = "extract_subclip_double_seek"
    /\ Started
    /\ proc.cmd[1].ss2 > 0

\* ================================== timecode.py: format and parse
\* Seconds are counted here in ticks of a tenth of a millisecond, so that
\* the rounding of "%06.3f" has something to round.
TicksPerSec == 10000
TicksPerMilli == 10

Digits == "0123456789"
DigitStr(d) == SubSeq(Digits, d + 1, d + 1)
IsDigit(c) == \E d \in 0 .. 9 : c = DigitStr(d)
DigitVal(c) == CHOOSE d \in 0 .. 9 : c = DigitStr(d)
CharAt(s, i) == SubSeq(s, i, i)

\* str(n) of a natural number
RECURSIVE IntToStr(_)
IntToStr(n) == IF n < 10 THEN DigitStr(n) ELSE IntToStr(n \div 10) \o DigitStr(n % 10)

\* the zero fill of the format specs 02d and 06.3f
RECURSIVE ZeroPad(_, _)
ZeroPad(s, width) == IF Len(s) >= width THEN s ELSE ZeroPad("0" \o s, width)

\* ".3f": ticks rounded to the nearest millisecond (a binary float is never
\* exactly half-way between two milliseconds at the values drawn)
RoundToMillis(ticks) ==
    (ticks \div TicksPerMilli) + (IF ticks % TicksPerMilli >= 5 THEN 1 ELSE 0)

\* f"{secs:06.3f}" of a number of milliseconds
Fixed3(millis) ==
    ZeroPad(IntToStr(millis \div 1000) \o "." \o ZeroPad(IntToStr(millis % 1000), 3), 6)

\* format_timecode with the minutes taken of the whole time
format_timecode_minutes_of_total(seconds) ==
    LET hours == seconds \div (3600 * TicksPerSec)
        minutes == seconds \div (60 * TicksPerSec)
        secs == seconds % (60 * TicksPerSec)
    IN  ZeroPad(IntToStr(hours), 2) \o ":" \o ZeroPad(IntToStr(minutes), 2) \o ":"
            \o Fixed3(RoundToMillis(secs))

\* format_timecode with the seconds cut to whole seconds
format_timecode_whole_seconds(seconds) ==
    LET hours == seconds \div (3600 * TicksPerSec)
        minutes == (seconds % (3600 * TicksPerSec)) \div (60 * TicksPerSec)
        secs == seconds % (60 * TicksPerSec)
    IN  ZeroPad(IntToStr(hours), 2) \o ":" \o ZeroPad(IntToStr(minutes), 2) \o ":"
            \o Fixed3((secs \div TicksPerSec) * 1000)

\* timecode.py:58-79
format_timecode(seconds) ==
    LET hours == seconds \div (3600 * TicksPerSec)
        minutes == (seconds % (3600 * TicksPerSec)) \div (60 * TicksPerSec)
        secs == seconds % (60 * TicksPerSec)
    IN  ZeroPad(IntToStr(hours), 2) \o ":" \o ZeroPad(IntToStr(minutes), 2) \o ":"
            \o Fixed3(RoundToMillis(secs))

\* the first position of character c in s, 0 when there is none
RECURSIVE IndexOf(_, _)
IndexOf(s, c) ==
    IF s = "" THEN 0
    ELSE IF Head(s) = c THEN 1
    ELSE LET k == IndexOf(Tail(s), c) IN IF k = 0 THEN 0 ELSE k + 1

\* str.split(sep)
RECURSIVE Split(_, _)
Split(s, sep) ==
    LET k == IndexOf(s, sep)
    IN  IF k = 0 THEN <<s>>
        ELSE <<SubSeq(s, 1, k - 1)>> \o Split(SubSeq(s, k + 1, Len(s)), sep)

\* str.strip() for blanks
RECURSIVE Strip(_)
Strip(s) ==
    IF s = "" THEN s
    ELSE IF Head(s) = " " THEN Strip(Tail(s))
    ELSE IF CharAt(s, Len(s)) = " " THEN Strip(SubSeq(s, 1, Len(s) - 1))
    ELSE s

RECURSIVE AllDigits(_)
AllDigits(s) == s = "" \/ (IsDigit(Head(s)) /\ AllDigits(Tail(s)))

RECURSIVE StrToNat(_)
StrToNat(s) ==
    IF s = "" THEN 0
    ELSE 10 * StrToNat(SubSeq(s, 1, Len(s) - 1)) + DigitVal(CharAt(s, Len(s)))

RECURSIVE ZeroFill(_, _)
ZeroFill(s, width) == IF Len(s) >= width THEN s ELSE ZeroFill(s \o "0", width)

\* the ticks of the fraction digits of a decimal; digits past the tick are cut
FracTicks(fp) == StrToNat(SubSeq(ZeroFill(fp, 4), 1, 4))

\* int(text): <<n>>, or <<>> for ValueError; blanks around the digits are
\* accepted (signs and underscores are not drawn)
PyInt(text) ==
    LET t == Strip(text)
    IN  IF t # "" /\ AllDigits(t) THEN <<StrToNat(t)>> ELSE <<>>

\* float(text) in ticks: <<x>>, or <<>> for ValueError (signs, exponents,
\* "inf" and "nan" are not drawn)
PyFloat(text) ==
    LET t == Strip(text)
        dot == IndexOf(t, ".")
        ip == IF dot = 0 THEN t ELSE SubSeq(t, 1, dot - 1)
        fp == IF dot = 0 THEN "" ELSE SubSeq(t, dot + 1, Len(t))
    IN  IF AllDigits(ip) /\ AllDigits(fp) /\ Len(ip) + Len(fp) >= 1
        THEN <<StrToNat(ip) * TicksPerSec + FracTicks(fp)>>
        ELSE <<>>

InvalidTimecode == Raised("ValueError", "Invalid timecode format")

\* parse_timecode that takes a fourth field as a frame number and drops it
parse_timecode_four_fields(timecode) ==
    LET parts == Split(Strip(timecode), ":")
        n == Len(parts)
    IN  IF n > 4 THEN InvalidTimecode
        ELSE IF n = 4 THEN
            IF \/ PyInt(parts[1]) = <<>> \/ PyInt(parts[2]) = <<>>
               \/ PyFloat(parts[3]) = <<>> \/ PyInt(parts[4]) = <<>>
            THEN InvalidTimecode
            ELSE Returned(<<PyInt(parts[1])[1] * 3600 * TicksPerSec
                            + PyInt(parts[2])[1] * 60 * TicksPerSec
                            + PyFloat(parts[3])[1]>>)
        ELSE IF n = 3 THEN
            IF PyInt(parts[1]) = <<>> \/ PyInt(parts[2]) = <<>> \/ PyFloat(parts[3]) = <<>>
            THEN InvalidTimecode
            ELSE Returned(<<PyInt(parts[1])[1] * 3600 * TicksPerSec
                            + PyInt(parts[2])[1] * 60 * TicksPerSec
                            + PyFloat(parts[3])[1]>>)
        ELSE IF n = 2 THEN
            IF PyInt(parts[1]) = <<>> \/ PyFloat(parts[2]) = <<>>
            THEN InvalidTimecode
            ELSE Returned(<<PyInt(parts[1])[1] * 60 * TicksPerSec + PyFloat(parts[2])[1]>>)
        ELSE IF PyFloat(parts[1]) = <<>>
            THEN InvalidTimecode
            ELSE Returned(<<PyFloat(parts[1])[1]>>)

\* timecode.py:82-129; the fields are converted left to right and the first
\* ValueError is re-raised as "Invalid timecode format"
parse_timecode(timecode) ==
    LET parts == Split(Strip(timecode), ":")
    IN  IF Len(parts) = 3 THEN
            IF PyInt(parts[1]) = <<>> \/ PyInt(parts[2]) = <<>> \/ PyFloat(parts[3]) = <<>>
            THEN InvalidTimecode
            ELSE Returned(<<PyInt(parts[1])[1] * 3600 * TicksPerSec
                            + PyInt(parts[2])[1] * 60 * TicksPerSec
                            + PyFloat(parts[3])[1]>>)
        ELSE IF Len(parts) = 2 THEN
            IF PyInt(parts[1]) = <<>> \/ PyFloat(parts[2]) = <<>>
            THEN InvalidTimecode
            ELSE Returned(<<PyInt(parts[1])[1] * 60 * TicksPerSec + PyFloat(parts[2])[1]>>)
        ELSE IF Len(parts) = 1 THEN
            IF PyFloat(parts[1]) = <<>>
            THEN InvalidTimecode
            ELSE Returned(<<PyFloat(parts[1])[1]>>)
        ELSE InvalidTimecode

\* ----------------------------------------------- format / parse calls
MaxFmtHours == 2
MaxFields == 4

\* the floats handed to format_timecode, in ticks: whole seconds around the
\* minute and hour borders, milliseconds around the rounding borders, and a
\* remainder below the millisecond
FmtWholeSecs == {h * 3600 + m * 60 + s : h \in 0 .. MaxFmtHours, m \in {0, 1, 59}, s \in {0, 1, 5, 59}}
FmtMillis == {0, 1, 123, 499, 500, 999}
FmtSubMillis == {0, 2, 4, 6, 8}
FmtSeconds == {(w * 1000 + ms) * TicksPerMilli + sub : w \in FmtWholeSecs, ms \in FmtMillis, sub \in FmtSubMillis}

\* the texts handed to parse_timecode: up to MaxFields fields joined by ":"
Components == {"", "0", "01", "30", "45.5", "5.", "x", " 2 ", "05.500"}
ExampleTexts == {"invalid", "1:2:3:4", "120", "00:01:05.500", " 01:30 ", "02:05.5", "1.5.5"}

RECURSIVE FieldTexts(_)
FieldTexts(n) ==
    IF n = 1 THEN Components
    ELSE {c \o ":" \o t : c \in Components, t \in FieldTexts(n - 1)}

ParseInputs == UNION {FieldTexts(n) : n \in 1 .. MaxFields} \cup ExampleTexts

FormatTimecode ==
    /\ fmt.pc = "format"
    /\ fmt' = [fmt EXCEPT !.pc = "parse", !.formatted = TRUE,
                          !.text = format_timecode(fmt.seconds)]
    /\ UNCHANGED <<tc_vars, ex_vars, par, meta, api, db>>

ParseTimecode ==
    /\ fmt.pc = "parse"
    /\ fmt' = [fmt EXCEPT !.pc = "done", !.parsed = parse_timecode(fmt.text)]
    /\ UNCHANGED <<tc_vars, ex_vars, par, meta, api, db>>

InitFormat ==
    /\ tc_args = TcIdle
    /\ tc_ret = NotCalled
    /\ InitExtraction
    /\ par = ParIdle /\ meta = MetaIdle /\ api = ApiIdle /\ db = DbIdle
    /\ \/ \E t \in FmtSeconds : fmt = [FmtIdle EXCEPT !.pc = "format", !.seconds = t]
       \/ \E s \in ParseInputs : fmt = [FmtIdle EXCEPT !.pc = "parse", !.text = s]

NextFormat == FormatTimecode \/ ParseTimecode

SpecFormat == InitFormat /\ [][NextFormat]_vars

\* C13: formatting a non-negative number of seconds and parsing the text
\* back gives a number less than one millisecond (10 ticks) away from it
C13_RoundTripWithinMillisecond ==
    (fmt.pc = "done" /\ fmt.formatted) =>
        /\ fmt.parsed.status = "returned"
        /\ fmt.parsed.value[1] - fmt.seconds < TicksPerMilli
        /\ fmt.seconds - fmt.parsed.value[1] < TicksPerMilli

C13_Witness ==
    /\ fmt.pc = "done" /\ fmt.formatted
    /\ fmt.seconds > 3600 * TicksPerSec
    /\ fmt.parsed.status = "returned"
    /\ fmt.parsed.value[1] # fmt.seconds

\* the shapes of the specification's fields, written without the code's
\* conversions
WholeShape(f) == f # "" /\ AllDigits(f)
SecShape(f) == \/ WholeShape(f)
               \/ \E k \in 2 .. (Len(f) - 1) : /\ CharAt(f, k) = "."
                                             /\ WholeShape(SubSeq(f, 1, k - 1))
                                             /\ WholeShape(SubSeq(f, k + 1, Len(f)))
SecTicks(f) ==
    LET k == IndexOf(f, ".")
    IN  IF k = 0 THEN StrToNat(f) * TicksPerSec
        ELSE StrToNat(SubSeq(f, 1, k - 1)) * TicksPerSec + FracTicks(SubSeq(f, k + 1, Len(f)))
NonNumeric(f) == \/ Strip(f) = ""
                 \/ \E j \in 1 .. Len(f) : ~IsDigit(CharAt(f, j)) /\ CharAt(f, j) \notin {".", " "}

C15_FormatFields ==
    fmt.formatted =>
        LET t == fmt.seconds
            text == fmt.text
            k == IndexOf(text, ":")
            hh == SubSeq(text, 1, k - 1)
            rest == SubSeq(text, k + 1, Len(text))
            mm == SubSeq(rest, 1, 2)
            ss == SubSeq(rest, 4, 5)
            mmm == SubSeq(rest, 7, 9)
            printed == StrToNat(ss) * TicksPerSec + StrToNat(mmm) * TicksPerMilli
        IN  /\ k >= 3
            /\ AllDigits(hh) /\ StrToNat(hh) = t \div (3600 * TicksPerSec)
            /\ Len(rest) = 9
            /\ AllDigits(mm) /\ StrToNat(mm) = (t % (3600 * TicksPerSec)) \div (60 * TicksPerSec)
            /\ CharAt(rest, 3) = ":" /\ CharAt(rest, 6) = "."
            /\ AllDigits(ss) /\ AllDigits(mmm)
            /\ printed - (t % (60 * TicksPerSec)) <= 5
            /\ (t % (60 * TicksPerSec)) - printed <= 5
            /\ t = 0 => text = "00:00:00.000"
            /\ t = 655 * 1000 => text = "00:01:05.500"
            /\ t = 36611230 => text = "01:01:01.123"
            /\ t = 3600 * TicksPerSec => text = "01:00:00.000"

C15_Witness ==
    /\ fmt.formatted
    /\ fmt.seconds = 36611230
    /\ fmt.text = "01:01:01.123"

\* ============================== concurrent local extractions (SpecPar)
MaxParStart == 1
MaxParEnd == 2
MaxParBuffer == 1
ParStarts == 0 .. MaxParStart
ParEnds == 1 .. MaxParEnd
ParBuffers == 0 .. MaxParBuffer

Changed(fs1, fs2) == {p \in Paths : fs1[p] # fs2[p]}
OthersBusy(c) == \E d \in Callers \ {c} : par.calls[d].pc \in {"running", "exited"}
ParSet(c, k) ==
    /\ par' = [par EXCEPT !.calls[c] = k]
    /\ UNCHANGED <<tc_vars, call, proc, outcome, fmt, meta, api, db>>

\* subclip.py:44-98 on the thread of caller c
ParExtractSubclip(c, start_sec, end_sec) ==
    LET k == par.calls[c]
        err == ValidateSingleSeek(files, ExistingInput, start_sec, end_sec)
        output_path == OutputPathOf(k.clip_id, ".mp4")
        args == [clip_id |-> k.clip_id, input_path |-> ExistingInput,
                 start_sec |-> start_sec, end_sec |-> end_sec,
                 output_extension |-> ".mp4"]
        started == [k EXCEPT !.op = "extract_subclip", !.output_path = output_path,
                             !.args = <<args>>, !.concurrent = OthersBusy(c)]
    IN  /\ k.pc = "idle"
        /\ IF err # ""
           THEN ParSet(c, [started EXCEPT !.pc = "raised",
                                          !.outcome = ExRaised("ValueError", err)])
           ELSE ParSet(c, [started EXCEPT !.pc = "running", !.tool = "running",
                               !.cmd = <<SingleSeekCmd(ExistingInput, start_sec, end_sec,
                                                       output_path)>>])
        /\ UNCHANGED files

\* subclip.py:125-199 on the thread of caller c
ParExtractSubclipDoubleSeek(c, start_sec, end_sec, pre_seek_buffer) ==
    LET k == par.calls[c]
        err == ValidateDoubleSeek(files, ExistingInput, start_sec, end_sec)
        output_path == OutputPathOf(k.clip_id, ".mp4")
        args == [clip_id |-> k.clip_id, input_path |-> ExistingInput,
                 start_sec |-> start_sec, end_sec |-> end_sec,
                 output_extension |-> ".mp4", pre_seek_buffer |-> pre_seek_buffer]
        started == [k EXCEPT !.op = "extract_subclip_double_seek",
                             !.output_path = output_path,
                             !.args = <<args>>, !.concurrent = OthersBusy(c)]
    IN  /\ k.pc = "idle"
        /\ IF err # ""
           THEN ParSet(c, [started EXCEPT !.pc = "raised",
                                          !.outcome = ExRaised("ValueError", err)])
           ELSE ParSet(c, [started EXCEPT !.pc = "running", !.tool = "running",
                               !.cmd = <<DoubleSeekCmd(ExistingInput, start_sec, end_sec,
                                                       pre_seek_buffer, output_path)>>])
        /\ UNCHANGED files

\* the transcoder of caller c writes to the output path of its command line
ParToolWritesOutput(c) ==
    LET k == par.calls[c]
    IN  /\ k.pc = "running"
        /\ files[k.cmd[1].output] # "partial"
        /\ files' = [files EXCEPT ![k.cmd[1].output] = "partial"]
        /\ ParSet(c, [k EXCEPT !.touched = @ \cup Changed(files, files')])

\* the transcoder of caller c exits; its caller has not looked yet
ParToolExit(c) ==
    LET k == par.calls[c]
    IN  /\ k.pc = "running"
        /\ \E returncode \in ReturnCodes :
             \E fs \in ToolFinal(returncode, files, k.cmd[1].output) :
                /\ files' = fs
                /\ ParSet(c, [k EXCEPT !.pc = "exited", !.tool = "exited",
                                       !.rc = returncode,
                                       !.produced = fs[k.cmd[1].output],
                                       !.touched = @ \cup Changed(files, fs)])

\* subclip.py:98-123 and 201-219: caller c goes on after its transcoder
ParComplete(c) ==
    LET k == par.calls[c]
        r == IF k.op = "extract_subclip"
             THEN SingleSeekComplete(k.rc, files, k.output_path, k.args[1])
             ELSE DoubleSeekComplete(k.rc, files, k.output_path, k.cmd[1])
    IN  /\ k.pc = "exited"
        /\ files' = r.files
        /\ ParSet(c, [k EXCEPT !.pc = r.outcome.status, !.outcome = r.outcome,
                               !.touched = @ \cup Changed(files, r.files)])

\* subclip.py:194-199, 215-219: the double seek of caller c times out
ParTimeoutExpired(c) ==
    LET k == par.calls[c]
        fs == DoubleSeekCleanup(files, k.output_path)
    IN  /\ k.pc = "running"
        /\ k.op = "extract_subclip_double_seek"
        /\ files' = fs
        /\ ParSet(c, [k EXCEPT !.pc = "raised", !.tool = "killed",
                               !.outcome = ExRaised("TimeoutExpired", "timed out"),
                               !.touched = @ \cup Changed(files, fs)])

InitPar ==
    /\ tc_args = TcIdle
    /\ tc_ret = NotCalled
    /\ InitExtraction
    /\ InitAux

NextPar ==
    \E c \in Callers :
        \/ \E start_sec \in ParStarts, end_sec \in ParEnds :
              ParExtractSubclip(c, start_sec, end_sec)
        \/ \E start_sec \in ParStarts, end_sec \in ParEnds, b \in ParBuffers :
              ParExtractSubclipDoubleSeek(c, start_sec, end_sec, b)
        \/ ParToolWritesOutput(c)
        \/ ParToolExit(c)
        \/ ParComplete(c)
        \/ ParTimeoutExpired(c)

SpecPar == InitPar /\ [][NextPar]_vars

\* the outcome of the call of k had it run with nobody else around: the same
\* arguments and the same transcoder behaviour in a file system of its own
AloneOutcome(k) ==
    LET a == k.args[1]
        fs == [InitFiles EXCEPT ![OutputPathOf(a.clip_id, a.output_extension)] = k.produced]
    IN  IF k.tool = "none" THEN
            ExRaised("ValueError",
                     IF k.op = "extract_subclip"
                     THEN ValidateSingleSeek(InitFiles, a.input_path, a.start_sec, a.end_sec)
                     ELSE ValidateDoubleSeek(InitFiles, a.input_path, a.start_sec, a.end_sec))
        ELSE IF k.tool = "killed" THEN ExRaised("TimeoutExpired", "timed out")
        ELSE IF k.op = "extract_subclip"
        THEN SingleSeekComplete(k.rc, fs, k.output_path, a).outcome
        ELSE DoubleSeekComplete(k.rc, fs, k.output_path, k.cmd[1]).outcome

\* C16: local extractions running at the same time on one input under distinct
\* clip ids write and delete only their own output path, never write the
\* source, never change clips_base_path, and each ends as it would have alone
C16_ConcurrentCallsIsolated ==
    /\ files[ExistingInput] = "source"
    /\ par.base = clips_base_path
    /\ \A c \in Callers :
          LET k == par.calls[c]
          IN  /\ k.touched \subseteq {OutputPathOf(ClipOf[c], ".mp4")}
              /\ k.pc \in {"returned", "raised"} => k.outcome = AloneOutcome(k)
              /\ k.pc = "returned" =>
                    /\ files[k.output_path] = "complete"
                    /\ k.outcome.result[1].file_path = OutputPathOf(ClipOf[c], ".mp4")
    /\ \A c, d \in Callers :
          (c # d /\ par.calls[c].pc # "idle" /\ par.calls[d].pc # "idle") =>
              par.calls[c].output_path # par.calls[d].output_path

C16_Witness ==
    /\ par.calls[1].pc = "returned"
    /\ par.calls[2].pc = "raised"
    /\ par.calls[2].concurrent
    /\ par.calls[2].tool = "exited"
    /\ par.calls[2].touched # {}
    /\ files[par.calls[2].output_path] = "absent"

\* ==================================== video_metadata.py (SpecMetadata)
MaxFpsNum == 30
MaxFpsDen == 2
\* the rational frame rates ffprobe reports: small ones, the NTSC family, and
\* "0/0" for a stream without a rate
FpsNums == (0 .. MaxFpsNum) \cup {24000, 30000, 60000}
FpsDens == (0 .. MaxFpsDen) \cup {1001}
RateText(num, den) == IntToStr(num) \o "/" \o IntToStr(den)

\* what ffmpeg.probe hands back: it fails (ffmpeg.Error), or it gives streams
\* with or without a video stream; r_frame_rate is absent or the text "num/den"
\* (rate keeps the two numbers the text was printed from), duration is absent
\* or a decimal text
Probes ==
    {[NoProbe EXCEPT !.ok = TRUE]}
    \cup {NoProbe}
    \cup {[ok |-> TRUE, has_video |-> TRUE, rate |-> <<>>, r_frame_rate |-> <<>>, duration |-> d] : d \in {<<>>, <<"60.000000">>}}
    \cup {[ok |-> TRUE, has_video |-> TRUE, rate |-> <<num, den>>, r_frame_rate |-> <<RateText(num, den)>>, duration |-> d] : num \in FpsNums, den \in FpsDens, d \in {<<>>, <<"60.000000">>}}

\* extract_metadata dividing without looking at the denominator
extract_metadata_no_den_check(probe) ==
    IF ~probe.ok THEN Raised("ValueError", "Failed to extract metadata")
    ELSE IF ~probe.has_video THEN Raised("ValueError", "No video stream found")
    ELSE
        LET duration_sec == IF probe.duration = <<>> THEN 0 ELSE PyFloat(probe.duration[1])[1]
            parts == IF probe.r_frame_rate = <<>> THEN <<>> ELSE Split(probe.r_frame_rate[1], "/")
        IN  IF probe.r_frame_rate = <<>>
            THEN Returned(<<[duration_sec |-> duration_sec, fps |-> <<>>]>>)
            ELSE IF Len(parts) # 2 \/ PyInt(parts[1]) = <<>> \/ PyInt(parts[2]) = <<>>
            THEN Raised("ValueError", "r_frame_rate")
            ELSE IF PyInt(parts[2])[1] = 0
            THEN Raised("ZeroDivisionError", "division by zero")
            ELSE Returned(<<[duration_sec |-> duration_sec,
                             fps |-> <<PyInt(parts[1])[1] \div PyInt(parts[2])[1]>>]>>)

\* video_metadata.py:27-65; durations are in ticks, fps is <<>> for None;
\* int(num / den) of two non-negative integers is their integer quotient
extract_metadata(probe) ==
    IF ~probe.ok THEN Raised("ValueError", "Failed to extract metadata")
    ELSE IF ~probe.has_video THEN Raised("ValueError", "No video stream found")
    ELSE
        LET duration_sec == IF probe.duration = <<>> THEN 0 ELSE PyFloat(probe.duration[1])[1]
            parts == IF probe.r_frame_rate = <<>> THEN <<>> ELSE Split(probe.r_frame_rate[1], "/")
        IN  IF probe.r_frame_rate = <<>>
            THEN Returned(<<[duration_sec |-> duration_sec, fps |-> <<>>]>>)
            ELSE IF Len(parts) # 2 \/ PyInt(parts[1]) = <<>> \/ PyInt(parts[2]) = <<>>
            THEN Raised("ValueError", "r_frame_rate")
            ELSE IF PyInt(parts[2])[1] = 0
            THEN Returned(<<[duration_sec |-> duration_sec, fps |-> <<>>]>>)
            ELSE Returned(<<[duration_sec |-> duration_sec,
                             fps |-> <<PyInt(parts[1])[1] \div PyInt(parts[2])[1]>>]>>)

\* a caller hands a file to extract_metadata and ffmpeg.probe answers
ProbeAnswers ==
    /\ meta.pc = "idle"
    /\ \E probe \in Probes : meta' = [meta EXCEPT !.pc = "probed", !.probe = probe]
    /\ UNCHANGED <<tc_vars, ex_vars, fmt, par, api, db>>

ExtractMetadata ==
    /\ meta.pc = "probed"
    /\ meta' = [meta EXCEPT !.pc = "done", !.ret = extract_metadata(meta.probe)]
    /\ UNCHANGED <<tc_vars, ex_vars, fmt, par, api, db>>

InitMetadata ==
    /\ tc_args = TcIdle
    /\ tc_ret = NotCalled
    /\ InitExtraction
    /\ InitAux

NextMetadata == ProbeAnswers \/ ExtractMetadata

SpecMetadata == InitMetadata /\ [][NextMetadata]_vars

\* C17: extract_metadata never raises because of the frame-rate field: for a
\* probe with a video stream it returns, with fps null when the field is
\* absent or its denominator is zero and the integer part of num/den otherwise
C17_FpsNeverRaises ==
    (meta.pc = "done" /\ meta.probe.ok /\ meta.probe.has_video) =>
        /\ meta.ret.status = "returned"
        /\ meta.ret.value[1].fps =
              IF meta.probe.rate = <<>> \/ meta.probe.rate[2] = 0
              THEN <<>>
              ELSE <<CHOOSE q \in 0 .. meta.probe.rate[1] :
                        /\ q * meta.probe.rate[2] <= meta.probe.rate[1]
                        /\ (q + 1) * meta.probe.rate[2] > meta.probe.rate[1]>>

C17_Witness ==
    /\ meta.pc = "done"
    /\ meta.probe.rate # <<>>
    /\ meta.probe.rate[2] = 0
    /\ meta.ret.status = "returned"
    /\ meta.ret.value[1].fps = <<>>

\* ================================ the remote operations (SpecRemote)
RemoteOps == {"extract_clip_from_gcs_streaming",
              "get_video_metadata_from_gcs_streaming",
              "create_proxy_from_gcs_streaming"}
\* the validity each operation asks of generate_signed_url
UrlMinutesOf(op) ==
    IF op = "get_video_metadata_from_gcs_streaming" THEN ProbeUrlMinutes
    ELSE IF op = "create_proxy_from_gcs_streaming" THEN ProxyUrlMinutes
    ELSE ExtractUrlMinutes

\* gcs_streaming.py:122-130
ProbeCmd(signed_url) ==
    [program |-> "ffprobe", seekable |-> 1, v |-> "quiet", print_format |-> "json",
     show_format |-> TRUE, show_streams |-> TRUE, i |-> signed_url.url]

\* gcs_streaming.py:179-193
ProxyCmd(signed_url, output_path) ==
    [program |-> "settings.ffmpeg_path", seekable |-> 1, i |-> signed_url.url,
     vf |-> "scale=1280:720", cv |-> "libx264", ca |-> "aac", ba |-> "128k",
     hls_time |-> 10, hls_list_size |-> 0, f |-> "hls", output |-> output_path]

\* gcs_streaming.py:114-132: get_video_metadata_from_gcs_streaming up to the
\* start of ffprobe
GetVideoMetadataFromGcsStreaming(gcs_path) ==
    LET signed_url == generate_signed_url(gcs_path, ProbeUrlMinutes)
    IN  /\ call.pc # "running"
        /\ call' = [op |-> "get_video_metadata_from_gcs_streaming", pc |-> "running",
                    output_path |-> "", args |-> <<[gcs_path |-> gcs_path]>>]
        /\ proc' = Spawn(ProbeCmd(signed_url), 1)
        /\ outcome' = Pending
        /\ UNCHANGED <<files, tc_vars, aux_vars>>

\* gcs_streaming.py:159-195: create_proxy_from_gcs_streaming up to the start
\* of the transcoder
CreateProxyFromGcsStreaming(gcs_path, output_dir, video_id) ==
    LET signed_url == generate_signed_url(gcs_path, ProxyUrlMinutes)
        output_path == ProxyPathOf(output_dir, video_id)
    IN  /\ call.pc # "running"
        /\ call' = [op |-> "create_proxy_from_gcs_streaming", pc |-> "running",
                    output_path |-> output_path,
                    args |-> <<[gcs_path |-> gcs_path, output_dir |-> output_dir,
                                video_id |-> video_id]>>]
        /\ proc' = Spawn(ProxyCmd(signed_url, output_path), 1)
        /\ outcome' = Pending
        /\ UNCHANGED <<files, tc_vars, aux_vars>>

\* what ffprobe can print for the object: no video stream, a video stream
\* with a rate, a video stream with the rate "0/0"
RemoteProbes == {[has_video |-> FALSE, rate |-> <<0, 0>>],
                 [has_video |-> TRUE, rate |-> <<30, 1>>],
                 [has_video |-> TRUE, rate |-> <<0, 0>>]}

\* gcs_streaming.py:134-156; eval("num/den") divides
ProbeComplete(returncode, fs, probe) ==
    IF returncode # 0 THEN
        [files |-> fs, outcome |-> ExRaised("Exception", "ffprobe failed")]
    ELSE IF ~probe.has_video THEN
        [files |-> fs, outcome |-> ExRaised("Exception", "No video stream found")]
    ELSE IF probe.rate[2] = 0 THEN
        [files |-> fs, outcome |-> ExRaised("ZeroDivisionError", "division by zero")]
    ELSE
        [files |-> fs,
         outcome |-> ExReturned([fps |-> probe.rate, method |-> "streaming"])]

\* gcs_streaming.py:197-200
ProxyComplete(returncode, fs, output_path) ==
    IF returncode # 0 THEN
        [files |-> fs, outcome |-> ExRaised("Exception", "Proxy rendering failed")]
    ELSE
        [files |-> fs, outcome |-> ExReturned([output_path |-> output_path])]

\* ffprobe exits; it writes to its standard output only
ProbeToolExit ==
    /\ call.pc = "running"
    /\ call.op = "get_video_metadata_from_gcs_streaming"
    /\ \E returncode \in ReturnCodes, probe \in RemoteProbes :
          Finish(ProbeComplete(returncode, files, probe), ExitState(returncode),
                 proc.wrote)

\* gcs_streaming.py:132: subprocess.run kills ffprobe after 30 seconds
ProbeTimeoutExpired ==
    /\ call.pc = "running"
    /\ call.op = "get_video_metadata_from_gcs_streaming"
    /\ proc.elapsed >= ProbeTimeout
    /\ Finish([files |-> files,
               outcome |-> ExRaised("TimeoutExpired", "timed out")], "killed",
              proc.wrote)

\* the transcoder of create_proxy_from_gcs_streaming exits
ProxyToolExit ==
    /\ call.pc = "running"
    /\ call.op = "create_proxy_from_gcs_streaming"
    /\ \E returncode \in ReturnCodes :
         \E fs \in ToolFinal(returncode, files, call.output_path) :
            Finish(ProxyComplete(returncode, fs, call.output_path),
                   ExitState(returncode), proc.wrote \/ fs # files)

\* gcs_streaming.py:195: subprocess.run kills the transcoder after 3600 seconds
ProxyTimeoutExpired ==
    /\ call.pc = "running"
    /\ call.op = "create_proxy_from_gcs_streaming"
    /\ proc.elapsed >= ProxyTimeout
    /\ Finish([files |-> files,
               outcome |-> ExRaised("TimeoutExpired", "timed out")], "killed",
              proc.wrote)

InitRemote ==
    /\ tc_args = TcIdle
    /\ tc_ret = NotCalled
    /\ InitExtraction
    /\ InitAux

NextRemote ==
    \/ \E gcs_path \in GcsPaths, start_sec \in StartSecs, end_sec \in EndSecs,
          output_path \in OutputPaths, padding_sec \in Paddings :
         ExtractClipFromGcsStreaming(gcs_path, start_sec, end_sec, output_path,
                                     padding_sec)
    \/ \E gcs_path \in GcsPaths : GetVideoMetadataFromGcsStreaming(gcs_path)
    \/ \E gcs_path \in GcsPaths, output_dir \in ProxyDirs, video_id \in VideoIds :
         CreateProxyFromGcsStreaming(gcs_path, output_dir, video_id)
    \/ ToolWritesOutput
    \/ Tick
    \/ StreamingToolExit
    \/ StreamingTimeoutExpired
    \/ ProbeToolExit
    \/ ProbeTimeoutExpired
    \/ ProxyToolExit
    \/ ProxyTimeoutExpired

SpecRemote == InitRemote /\ [][NextRemote]_vars

\* C18: a remote operation generates one pre-signed URL per call and hands
\* that one to its external process; the timeout on the process is strictly
\* shorter than the validity of the URL (300 s / 10 min, 30 s / 5 min,
\* 3600 s / 120 min), so the process is never seen running past the URL
C18_TimeoutShorterThanUrl ==
    (Started /\ call.op \in RemoteOps) =>
        /\ proc.signed_urls = 1
        /\ proc.cmd[1].i =
              generate_signed_url(call.args[1].gcs_path, UrlMinutesOf(call.op)).url
        /\ proc.elapsed <= TimeoutOf(call.op)
        /\ TimeoutOf(call.op) < UrlMinutesOf(call.op) * 60
        /\ call.op = "extract_clip_from_gcs_streaming" =>
              TimeoutOf(call.op) = 300 /\ UrlMinutesOf(call.op) = 10
        /\ call.op = "get_video_metadata_from_gcs_streaming" =>
              TimeoutOf(call.op) = 30 /\ UrlMinutesOf(call.op) = 5
        /\ call.op = "create_proxy_from_gcs_streaming" =>
              TimeoutOf(call.op) = 3600 /\ UrlMinutesOf(call.op) = 120

C18_Witness ==
    /\ call.op = "create_proxy_from_gcs_streaming"
    /\ proc.state = "killed"
    /\ proc.elapsed = ProxyTimeout
    /\ proc.signed_urls = 1
    /\ outcome.error = "TimeoutExpired"

\* ====================================== api/clips.py: create_clip (SpecApi)
MaxApiEnd == 8
MaxApiPad == 3
MaxApiDuration == 7
\* ClipCreate (schemas/clip.py): start_sec >= 0, end_sec > 0, padding_sec >= 0
ApiStarts == {0, 2}
ApiEnds == {2, 6, MaxApiEnd}
ApiPads == {0, 1, MaxApiPad}
ApiDurations == {MaxApiDuration, 60}
ClipCreate ==
    [video_id : RequestVideoIds, start_sec : ApiStarts, end_sec : ApiEnds,
     padding_sec : ApiPads]

HttpError(status_code, detail) == [status |-> status_code, detail |-> detail, clip |-> <<>>]
Created(clip) == [status |-> 201, detail |-> "", clip |-> <<clip>>]

\* a handler that answers 400 to TypeError instead of ValueError
ErrorStatus_catches_type_error(error) == IF error = "TypeError" THEN 400 ELSE 500

\* clips.py:98-107: "except ValueError" answers 400, "except Exception" 500
ErrorStatus(error) == IF error = "ValueError" THEN 400 ELSE 500

\* the Clip row with the length of the requested range as its duration
ClipRecord_unpadded_duration(clip_id, clip_data, result) ==
    [clip_id |-> clip_id, video_id |-> clip_data.video_id,
     start_sec |-> clip_data.start_sec, end_sec |-> clip_data.end_sec,
     padding_sec |-> clip_data.padding_sec, file_path |-> result.file_path,
     duration_sec |-> clip_data.end_sec - clip_data.start_sec]

\* clips.py:79-88
ClipRecord(clip_id, clip_data, result) ==
    [clip_id |-> clip_id, video_id |-> clip_data.video_id,
     start_sec |-> clip_data.start_sec, end_sec |-> clip_data.end_sec,
     padding_sec |-> clip_data.padding_sec, file_path |-> result.file_path,
     duration_sec |-> result.duration_sec]

\* uuid.uuid4() (clips.py:68): an id no Clip row has
FreshClipIds == ClipIds \ {c.clip_id : c \in api.clips}

\* the handler answers: the response, the Clip rows and the files it leaves,
\* and the transcoder command lines it has run
Respond(clip_data, response, clips, fs, cmd) ==
    /\ api' = [api EXCEPT !.request = <<clip_data>>, !.response = response,
                          !.clips = clips, !.cmd = cmd,
                          !.before = [clips |-> api.clips, files |-> files]]
    /\ files' = fs
    /\ UNCHANGED <<tc_vars, call, proc, outcome, fmt, par, meta, db>>

\* clips.py:23-107, the transcoder run of extract_subclip included
CreateClip(clip_data) ==
    IF clip_data.video_id \notin DOMAIN api.videos THEN
        Respond(clip_data, HttpError(404, "Video not found"), api.clips, files, <<>>)
    ELSE IF ~Exists(files, api.videos[clip_data.video_id].original_path) THEN
        Respond(clip_data, HttpError(404, "Original video file not found"),
                api.clips, files, <<>>)
    ELSE
        LET video == api.videos[clip_data.video_id]
            tc == calculate_clip_timecode(clip_data.start_sec, clip_data.end_sec,
                                          clip_data.padding_sec, video.duration_sec)
        IN  IF tc.status = "raised" THEN
                Respond(clip_data, HttpError(ErrorStatus(tc.error), tc.message),
                        api.clips, files, <<>>)
            ELSE
                \E clip_id \in FreshClipIds :
                    LET start_sec == tc.value[1]
                        end_sec == tc.value[2]
                        output_path == OutputPathOf(clip_id, ".mp4")
                        args == [clip_id |-> clip_id, input_path |-> video.original_path,
                                 start_sec |-> start_sec, end_sec |-> end_sec,
                                 output_extension |-> ".mp4"]
                        err == ValidateSingleSeek(files, video.original_path, start_sec, end_sec)
                        cmd == SingleSeekCmd(video.original_path, start_sec, end_sec, output_path)
                    IN  IF err # "" THEN
                            Respond(clip_data, HttpError(ErrorStatus("ValueError"), err),
                                    api.clips, files, <<>>)
                        ELSE
                            \E returncode \in ReturnCodes :
                              \E written \in {files, [files EXCEPT ![output_path] = "partial"]} :
                                \E fs \in ToolFinal(returncode, written, output_path) :
                                    LET r == SingleSeekComplete(returncode, fs, output_path, args)
                                    IN  IF r.outcome.status = "returned"
                                        THEN Respond(clip_data,
                                                 Created(ClipRecord(clip_id, clip_data,
                                                                    r.outcome.result[1])),
                                                 api.clips \cup {ClipRecord(clip_id, clip_data,
                                                                            r.outcome.result[1])},
                                                 r.files, <<cmd>>)
                                        ELSE Respond(clip_data,
                                                 HttpError(ErrorStatus(r.outcome.error),
                                                           "Failed to create clip"),
                                                 api.clips, r.files, <<cmd>>)

InitApi ==
    /\ tc_args = TcIdle
    /\ tc_ret = NotCalled
    /\ InitExtraction
    /\ fmt = FmtIdle /\ par = ParIdle /\ meta = MetaIdle /\ db = DbIdle
    /\ \E d \in ApiDurations : api = [ApiIdle EXCEPT !.videos = ApiVideos(d)]

NextApi == \E clip_data \in ClipCreate : CreateClip(clip_data)

SpecApi == InitApi /\ [][NextApi]_vars

ApiAnswered == api.response.status # 0
ApiRequest == api.request[1]
ApiUnchanged == api.clips = api.before.clips /\ files = api.before.files

\* C19: a created clip (201) is the one Clip row added by the request; it
\* keeps the requested start_sec, end_sec and padding_sec, its duration_sec is
\* min(duration, end + padding) - max(0, start - padding), the transcoder was
\* given that padded, clamped range, and its file_path is the output file of
\* the extractor, which exists; a valid request whose transcoder succeeds is
\* answered 201; (start 2, end 6, padding 1) on 60 seconds gives 6
C19_CreatedClipRecordsRequest ==
    ApiAnswered =>
        LET req == ApiRequest
            status == api.response.status
        IN  /\ status = 201 =>
                LET clip == api.response.clip[1]
                    duration == api.videos[req.video_id].duration_sec
                    lo == Max(0, req.start_sec - req.padding_sec)
                    hi == Min(duration, req.end_sec + req.padding_sec)
                IN  /\ clip \notin api.before.clips
                    /\ api.clips = api.before.clips \cup {clip}
                    /\ \A c \in api.before.clips : c.clip_id # clip.clip_id
                    /\ clip.video_id = req.video_id
                    /\ clip.start_sec = req.start_sec
                    /\ clip.end_sec = req.end_sec
                    /\ clip.padding_sec = req.padding_sec
                    /\ clip.duration_sec = hi - lo
                    /\ Len(api.cmd) = 1
                    /\ api.cmd[1].ss = lo /\ api.cmd[1].to = hi
                    /\ api.cmd[1].output = clip.file_path
                    /\ clip.file_path = OutputPathOf(clip.clip_id, ".mp4")
                    /\ files[clip.file_path] = "complete"
                    /\ (req.start_sec = 2 /\ req.end_sec = 6 /\ req.padding_sec = 1
                        /\ duration = 60) => clip.duration_sec = 6
            /\ (/\ req.video_id = "video-1"
                /\ req.end_sec > req.start_sec
                /\ req.end_sec <= api.videos["video-1"].duration_sec
                /\ api.cmd # <<>>
                /\ files[api.cmd[1].output] = "complete") => status = 201

C19_Witness ==
    /\ api.response.status = 201
    /\ ApiRequest.start_sec = 2 /\ ApiRequest.end_sec = 6 /\ ApiRequest.padding_sec = 1
    /\ api.videos["video-1"].duration_sec = 60
    /\ api.response.clip[1].duration_sec = 6
    /\ api.before.clips # {}

\* C20: a request whose timecodes fail validation (end_sec <= start_sec, or
\* end_sec beyond the stored duration) is answered 400 with the validator's
\* message, a request for an unknown video 404; in both cases no transcoder
\* has run and the Clip rows and the files are as they were
C20_RejectedRequestChangesNothing ==
    ApiAnswered =>
        LET req == ApiRequest
        IN  /\ req.video_id \notin DbVideoIds =>
                /\ api.response.status = 404
                /\ api.cmd = <<>>
                /\ ApiUnchanged
            /\ (req.video_id = "video-1" /\ req.end_sec <= req.start_sec) =>
                /\ api.response = HttpError(400, "out_sec must be > in_sec")
                /\ api.cmd = <<>>
                /\ ApiUnchanged
            /\ (/\ req.video_id = "video-1"
                /\ req.end_sec > req.start_sec
                /\ req.end_sec > api.videos["video-1"].duration_sec) =>
                /\ api.response = HttpError(400, "out_sec cannot exceed video duration")
                /\ api.cmd = <<>>
                /\ ApiUnchanged

C20_Witness ==
    /\ api.response.status = 400
    /\ api.response.detail = "out_sec cannot exceed video duration"
    /\ api.before.clips # {}
    /\ api.clips = api.before.clips

\* C30: format_timecode(t) is a well-formed timecode for every t >= 0: the
\* minutes field is in 00..59 and the seconds field, as printed with three
\* decimals, is below 60.000
C30_WellFormedTimecode ==
    fmt.formatted =>
        LET text == fmt.text
            k == IndexOf(text, ":")
            rest == SubSeq(text, k + 1, Len(text))
            mm == SubSeq(rest, 1, 2)
            ss == SubSeq(rest, 4, 5)
        IN  /\ AllDigits(mm) /\ StrToNat(mm) <= 59
            /\ AllDigits(ss) /\ StrToNat(ss) < 60

\* ================== the two padding rules on one request (SpecPadding)
\* a caller hands the request it gave calculate_clip_timecode to the remote
\* extractor
ExtractRemoteOnTimecodeArgs ==
    /\ call.pc = "idle"
    /\ \E gcs_path \in GcsPaths, output_path \in OutputPaths :
          ExtractClipFromGcsStreaming(gcs_path, tc_args.in_sec, tc_args.out_sec,
                                      output_path, tc_args.padding_sec)

NextPadding == CallCalculateClipTimecode \/ ExtractRemoteOnTimecodeArgs

SpecPadding == InitTimecode /\ [][NextPadding]_vars

\* C29: for a request with in_sec >= 0, out_sec > in_sec, padding_sec >= 0 and
\* out_sec + padding_sec <= video_duration the remote extractor's
\* (actual_start, actual_duration) equal the (start_sec, duration_sec) of
\* calculate_clip_timecode, so the remote window ends at out_sec + padding_sec
C29_RemoteAgreesWithLocal ==
    (/\ TcCalled /\ TcValid
     /\ tc_args.out_sec + tc_args.padding_sec <= tc_args.video_duration
     /\ call.op = "extract_clip_from_gcs_streaming" /\ Started) =>
        /\ tc_ret.status = "returned"
        /\ proc.cmd[1].ss = tc_ret.value[1]
        /\ proc.cmd[1].t = tc_ret.value[3]
        /\ proc.cmd[1].ss + proc.cmd[1].t = tc_args.out_sec + tc_args.padding_sec


\* ============================================================ api/videos.py, tasks/proxy.py
\* ---- the Video table and the proxy conversion of a video
other_vars == <<tc_vars, ex_vars, fmt, par, meta, api>>

ProxyStatuses == {"pending", "processing", "completed", "failed"}
proxy_base_path == "/nas/proxy"
OriginalPathOf(video_id) == "/nas/original/" \o video_id \o ".mp4"

VideoRow(original_path, proxy_path, proxy_status) ==
    [original_path |-> original_path, proxy_path |-> proxy_path,
     proxy_status |-> proxy_status]

InsertRow(rows, id, row) ==
    [v \in DOMAIN rows \cup {id} |-> IF v = id THEN row ELSE rows[v]]
DeleteRow(rows, id) == [v \in DOMAIN rows \ {id} |-> rows[v]]

HttpAnswer(status_code, detail, proxy_status) ==
    [status |-> status_code, detail |-> detail, proxy_status |-> proxy_status]

FreeTasks(d) == {t \in TaskIds : d.tasks[t].pc = "free"}
FirstFreeTask(d) == CHOOSE t \in FreeTasks(d) : \A u \in FreeTasks(d) : t <= u
\* background_tasks.add_task(proxy_conversion_task, video_id=...)
AddTask(d, video_id, by) ==
    [d EXCEPT !.tasks[FirstFreeTask(d)] =
        [pc |-> "scheduled", video_id |-> video_id, by |-> by]]

\* upload_video: the row is committed with proxy_status = "pending" and no
\* proxy_path, or the handler fails after drawing the id and commits nothing
UploadVideo ==
    /\ \E video_id \in DbVideoIds \ db.uuids :
          \/ db' = [db EXCEPT !.uuids = @ \cup {video_id},
                              !.videos = InsertRow(@, video_id,
                                  VideoRow(OriginalPathOf(video_id), NULL, "pending"))]
          \/ db' = [db EXCEPT !.uuids = @ \cup {video_id}]
    /\ UNCHANGED other_vars

\* a delete_video that leaves the Clip rows of the video behind
DeleteVideo_without_cascade ==
    /\ \E video_id \in DOMAIN db.videos :
          db' = [db EXCEPT !.videos = DeleteRow(@, video_id)]
    /\ UNCHANGED other_vars
\* delete_video: the row and, by the cascade of Video.clips, its Clip rows go
\* in one commit
DeleteVideo ==
    /\ \E video_id \in DOMAIN db.videos :
          db' = [db EXCEPT !.videos = DeleteRow(@, video_id),
                           !.clips = {c \in @ : c.video_id # video_id}]
    /\ UNCHANGED other_vars

\* a handler that rejects a video in processing only
QueryProxy_admits_completed(d, r, video_id) ==
    LET answered(response) ==
            [d EXCEPT !.req[r] = [RequestIdle EXCEPT !.op = "create_proxy",
                !.pc = "done", !.video_id = video_id, !.response = response]]
    IN  IF video_id \notin DOMAIN d.videos
        THEN answered(HttpAnswer(404, "Video not found", ""))
        ELSE IF d.videos[video_id].proxy_status = "processing"
        THEN answered(HttpAnswer(400, "Proxy conversion already in progress", ""))
        ELSE [d EXCEPT !.req[r] = [RequestIdle EXCEPT !.op = "create_proxy",
                !.pc = "admitted", !.video_id = video_id]]
\* create_proxy up to its guards: the row is read and the request is answered
\* 404 or 400, or goes on
QueryProxy(d, r, video_id) ==
    LET answered(response) ==
            [d EXCEPT !.req[r] = [RequestIdle EXCEPT !.op = "create_proxy",
                !.pc = "done", !.video_id = video_id, !.response = response]]
    IN  IF video_id \notin DOMAIN d.videos
        THEN answered(HttpAnswer(404, "Video not found", ""))
        ELSE IF d.videos[video_id].proxy_status = "completed"
        THEN answered(HttpAnswer(400, "Proxy already exists", ""))
        ELSE IF d.videos[video_id].proxy_status = "processing"
        THEN answered(HttpAnswer(400, "Proxy conversion already in progress", ""))
        ELSE [d EXCEPT !.req[r] = [RequestIdle EXCEPT !.op = "create_proxy",
                !.pc = "admitted", !.video_id = video_id]]

\* create_proxy from add_task to the response: the task is added, the row is
\* updated and committed; the UPDATE of a row deleted meanwhile matches no row
\* and the commit raises
CommitProxy(d, r) ==
    LET video_id == d.req[r].video_id
    IN  IF video_id \notin DOMAIN d.videos
        THEN [d EXCEPT !.req[r].pc = "done",
                       !.req[r].response = HttpAnswer(500, "StaleDataError", "")]
        ELSE [AddTask(d, video_id, r) EXCEPT
                       !.videos[video_id].proxy_status = "processing",
                       !.req[r].pc = "done",
                       !.req[r].response = HttpAnswer(200, "", "processing")]

RequestFree(r) == db.req[r].pc \in {"idle", "done"}

CreateProxyQuery(r, video_id) ==
    /\ RequestFree(r)
    /\ db' = QueryProxy(db, r, video_id)
    /\ UNCHANGED other_vars

CreateProxyCommit(r) ==
    /\ db.req[r].op = "create_proxy"
    /\ db.req[r].pc = "admitted"
    /\ FreeTasks(db) # {}
    /\ db' = CommitProxy(db, r)
    /\ UNCHANGED other_vars

\* create_proxy handled with no other request or task in between
CreateProxy(r, video_id) ==
    /\ RequestFree(r)
    /\ FreeTasks(db) # {}
    /\ db' = LET d == QueryProxy(db, r, video_id)
             IN  IF d.req[r].pc = "admitted" THEN CommitProxy(d, r) ELSE d
    /\ UNCHANGED other_vars

\* proxy_conversion_task up to the converter: no row, no work
TaskStart(t) ==
    /\ db.tasks[t].pc = "scheduled"
    /\ LET video_id == db.tasks[t].video_id
       IN  db' = IF video_id \notin DOMAIN db.videos
                 THEN [db EXCEPT !.tasks[t] = TaskFree]
                 ELSE [db EXCEPT !.tasks[t].pc = "converting",
                                 !.videos[video_id].proxy_status = "processing"]
    /\ UNCHANGED other_vars

\* the task after convert_to_hls: one commit, then the task is over
TaskEnd(d, t, proxy_path, proxy_status) ==
    LET video_id == d.tasks[t].video_id
    IN  IF video_id \notin DOMAIN d.videos
        THEN [d EXCEPT !.tasks[t] = TaskFree]
        ELSE [d EXCEPT !.tasks[t] = TaskFree,
                       !.videos[video_id].proxy_path = proxy_path,
                       !.videos[video_id].proxy_status = proxy_status]

\* a task that commits the status and forgets the path
TaskSucceeds_without_path(t) ==
    /\ db.tasks[t].pc = "converting"
    /\ db' = LET video_id == db.tasks[t].video_id
             IN  TaskEnd(db, t, IF video_id \in DOMAIN db.videos
                                THEN db.videos[video_id].proxy_path ELSE NULL, "completed")
    /\ UNCHANGED other_vars
\* convert_to_hls returned: path and status are committed together
TaskSucceeds(t) ==
    /\ db.tasks[t].pc = "converting"
    /\ db' = TaskEnd(db, t, ProxyPathOf(proxy_base_path, db.tasks[t].video_id), "completed")
    /\ UNCHANGED other_vars

\* a task that logs the error and leaves the row as it is
TaskFails_silently(t) ==
    /\ db.tasks[t].pc = "converting"
    /\ db' = [db EXCEPT !.tasks[t] = TaskFree]
    /\ UNCHANGED other_vars
\* convert_to_hls raised: the row is read again and marked failed
TaskFails(t) ==
    /\ db.tasks[t].pc = "converting"
    /\ db' = LET video_id == db.tasks[t].video_id
             IN  TaskEnd(db, t, IF video_id \in DOMAIN db.videos
                                THEN db.videos[video_id].proxy_path ELSE NULL, "failed")
    /\ UNCHANGED other_vars

\* retry_failed_conversion: the row goes back to pending whatever its status
\* was, then the task runs
RetryFailedConversion(video_id) ==
    /\ video_id \in DOMAIN db.videos
    /\ FreeTasks(db) # {}
    /\ db' = [AddTask(db, video_id, 0) EXCEPT !.videos[video_id].proxy_status = "pending"]
    /\ UNCHANGED other_vars

InitProxy ==
    /\ tc_args = TcIdle
    /\ tc_ret = NotCalled
    /\ InitExtraction
    /\ InitAux

TaskStep == \E t \in TaskIds : TaskStart(t) \/ TaskSucceeds(t) \/ TaskFails(t)

\* requests for a proxy are handled one after the other
NextProxySeq ==
    \/ UploadVideo
    \/ DeleteVideo
    \/ \E r \in Callers, video_id \in DbVideoIds : CreateProxy(r, video_id)
    \/ TaskStep

SpecProxySeq == InitProxy /\ [][NextProxySeq]_vars

\* requests for a proxy are handled concurrently
NextProxy ==
    \/ UploadVideo
    \/ DeleteVideo
    \/ \E r \in Callers, video_id \in DbVideoIds : CreateProxyQuery(r, video_id)
    \/ \E r \in Callers : CreateProxyCommit(r)
    \/ TaskStep

SpecProxy == InitProxy /\ [][NextProxy]_vars

\* a task that was added runs (BackgroundTasks runs it once the response is
\* out) and the converter it waits for ends
FairProxy ==
    \A t \in TaskIds : WF_vars(TaskStart(t)) /\ WF_vars(TaskSucceeds(t) \/ TaskFails(t))

SpecProxySeqFair == SpecProxySeq /\ FairProxy

NextProxyRetry ==
    \/ NextProxySeq
    \/ \E video_id \in DbVideoIds : RetryFailedConversion(video_id)

SpecProxyRetry == InitProxy /\ [][NextProxyRetry]_vars


\* C22: create_proxy on a video whose proxy_status is completed or processing
\* is answered 400, adds no conversion task and leaves the Video rows as they
\* were; on a video in pending or failed it adds exactly one conversion task,
\* for that video, and answers with the video in proxy_status = processing.
C22_CreateProxyGuard ==
    [][\A r \in Callers, video_id \in DbVideoIds :
          (CreateProxy(r, video_id) /\ video_id \in DOMAIN db.videos) =>
              LET before == db.videos[video_id].proxy_status
                  response == db'.req[r].response
                  added == {t \in TaskIds : db'.tasks[t] # db.tasks[t]}
              IN  /\ before \in {"completed", "processing"} =>
                        /\ response.status = 400
                        /\ added = {}
                        /\ db'.videos = db.videos
                  /\ before \in {"pending", "failed"} =>
                        /\ response.status = 200
                        /\ response.proxy_status = "processing"
                        /\ db'.videos[video_id].proxy_status = "processing"
                        /\ db'.videos[video_id].proxy_path = db.videos[video_id].proxy_path
                        /\ Cardinality(added) = 1
                        /\ \A t \in added :
                              /\ db.tasks[t].pc = "free"
                              /\ db'.tasks[t].pc = "scheduled"
                              /\ db'.tasks[t].video_id = video_id]_vars

\* one request was turned down because the proxy exists, another one, on a
\* video whose conversion had failed, was admitted
C22_Witness ==
    \E r1, r2 \in Callers :
        /\ db.req[r1].response.status = 400
        /\ db.req[r1].response.detail = "Proxy already exists"
        /\ db.req[r2].response.status = 200
        /\ db.req[r2].video_id \in DOMAIN db.videos
        /\ db.videos[db.req[r2].video_id].proxy_status = "failed"


\* C23: in every reachable state a video whose proxy_status is completed has
\* a proxy_path that is not null.
C23_CompletedHasProxyPath ==
    \A video_id \in DOMAIN db.videos :
        db.videos[video_id].proxy_status = "completed" =>
            db.videos[video_id].proxy_path # NULL

\* a conversion has succeeded: the row is completed and carries the playlist
\* path of that video, while another video was never converted
C23_Witness ==
    \E video_id, other \in DOMAIN db.videos :
        /\ db.videos[video_id].proxy_status = "completed"
        /\ db.videos[video_id].proxy_path = ProxyPathOf(proxy_base_path, video_id)
        /\ db.videos[other].proxy_path = NULL


\* C28: whatever the interleaving of concurrent create_proxy requests on a
\* video, and of those requests with a running conversion task, at most one
\* conversion task is scheduled or running for that video at a time.
C28_OneConversionPerVideo ==
    \A video_id \in DbVideoIds :
        Cardinality({t \in TaskIds : /\ db.tasks[t].pc # "free"
                                     /\ db.tasks[t].video_id = video_id}) <= 1


\* ---- the life cycle of proxy_status
LifecycleOfTask ==
    {<<"pending", "processing">>, <<"processing", "completed">>,
     <<"processing", "failed">>}
\* create_proxy admits a video whose conversion has failed
LifecycleOfCode == LifecycleOfTask \cup {<<"failed", "processing">>}

StatusMovesWithin(moves) ==
    \A video_id \in DOMAIN db.videos \cap DOMAIN db'.videos :
        \/ db'.videos[video_id].proxy_status = db.videos[video_id].proxy_status
        \/ <<db.videos[video_id].proxy_status,
             db'.videos[video_id].proxy_status>> \in moves

StatusInRange ==
    \A video_id \in DOMAIN db.videos :
        db.videos[video_id].proxy_status \in ProxyStatuses

\* a task that has started on a video leaves it, if it still exists, in
\* completed or failed
StartedTaskSettles ==
    \A t \in TaskIds, video_id \in DbVideoIds :
        (db.tasks[t].pc = "converting" /\ db.tasks[t].video_id = video_id)
            ~> (\/ video_id \notin DOMAIN db.videos
                \/ db.videos[video_id].proxy_status \in {"completed", "failed"})

MinGcsStart == 0 - 1
MaxGcsEnd == 1
GcsStarts == MinGcsStart .. MaxGcsEnd - 1
GcsEnds == 0 .. MaxGcsEnd
GcsUri(gcs_path) == "gs://bucket/" \o gcs_path

ClipRow(clip_id, video_id) == [clip_id |-> clip_id, video_id |-> video_id]

\* the committed Video rows of an object; .first() takes any one of them
VideosOf(d, gcs_path) ==
    {v \in DOMAIN d.videos : d.videos[v].original_path = GcsUri(gcs_path)}

GcsRequest(r) == db.req[r].op = "create_from_gcs"

GcsAnswer(d, r, status_code, detail) ==
    [d EXCEPT !.req[r].pc = "done",
              !.req[r].response = HttpAnswer(status_code, detail, "")]

\* create-from-gcs up to the extraction: the range check, raised inside the
\* try block and so caught by "except Exception", then find-or-create of the
\* Video (added and flushed, not committed) and the clip id
CreateFromGcsBegin(r, gcs_path, start_sec, end_sec) ==
    /\ RequestFree(r)
    /\ LET request == [RequestIdle EXCEPT !.op = "create_from_gcs",
                          !.gcs_path = gcs_path, !.start_sec = start_sec,
                          !.end_sec = end_sec]
       IN  IF start_sec < 0 \/ end_sec <= start_sec
           THEN db' = GcsAnswer([db EXCEPT !.req[r] = request], r,
                          ErrorStatus("HTTPException"),
                          "Failed to create clip from GCS: 400: Invalid timecodes")
           ELSE \E clip_id \in ClipIds \ db.uuids :
                  \/ \E video_id \in VideosOf(db, gcs_path) :
                        db' = [db EXCEPT !.uuids = @ \cup {clip_id},
                                  !.req[r] = [request EXCEPT !.pc = "extracting",
                                      !.video_id = video_id, !.clip_id = clip_id]]
                  \/ /\ VideosOf(db, gcs_path) = {}
                     /\ \E video_id \in DbVideoIds \ db.uuids :
                          db' = [db EXCEPT !.uuids = @ \cup {clip_id, video_id},
                                  !.req[r] = [request EXCEPT !.pc = "extracting",
                                      !.video_id = video_id, !.video_new = TRUE,
                                      !.clip_id = clip_id]]
    /\ UNCHANGED other_vars

\* the extractor raised (ValueError, RuntimeError, TimeoutExpired): rollback
CreateFromGcsExtractionRaises(r) ==
    /\ GcsRequest(r)
    /\ db.req[r].pc = "extracting"
    /\ \E error \in {"ValueError", "RuntimeError", "TimeoutExpired"} :
          db' = GcsAnswer([db EXCEPT !.req[r].extracted = TRUE], r,
                          ErrorStatus(error), error)
    /\ UNCHANGED other_vars

\* the extractor returned and the commit raised: the database is down, or the
\* Video the request had found is gone and the foreign key of the Clip refuses
\* the row; rollback
CreateFromGcsCommitRaises(r) ==
    /\ GcsRequest(r)
    /\ db.req[r].pc = "extracting"
    /\ \E error \in {"OperationalError", "IntegrityError"} :
          /\ error = "IntegrityError" =>
                 /\ ~db.req[r].video_new
                 /\ db.req[r].video_id \notin DOMAIN db.videos
          /\ db' = GcsAnswer([db EXCEPT !.req[r].extracted = TRUE], r,
                             ErrorStatus(error), error)
    /\ UNCHANGED other_vars

\* a commit that writes the Video and loses the Clip
GcsCommitted_video_only(d, r) ==
    LET request == d.req[r]
    IN  [d EXCEPT !.videos = IF request.video_new
                             THEN InsertRow(@, request.video_id,
                                      VideoRow(GcsUri(request.gcs_path), NULL, "pending"))
                             ELSE @]
\* what the commit of the request's transaction writes
GcsCommitted(d, r) ==
    LET request == d.req[r]
    IN  [d EXCEPT !.videos = IF request.video_new
                             THEN InsertRow(@, request.video_id,
                                      VideoRow(GcsUri(request.gcs_path), NULL, "pending"))
                             ELSE @,
                  !.clips = @ \cup {ClipRow(request.clip_id, request.video_id)}]

\* the extractor returned and the commit went through: the Clip and, if it is
\* new, the Video are written together
CreateFromGcsCommits(r) ==
    /\ GcsRequest(r)
    /\ db.req[r].pc = "extracting"
    /\ db.req[r].video_new \/ db.req[r].video_id \in DOMAIN db.videos
    /\ db' = GcsAnswer(GcsCommitted([db EXCEPT !.req[r].extracted = TRUE], r), r, 201, "")
    /\ UNCHANGED other_vars

\* create_clip, as far as the tables go: the video must exist, and the Clip row
\* is committed once the extraction has returned
CreateClipRow ==
    /\ \E video_id \in DOMAIN db.videos, clip_id \in ClipIds \ db.uuids :
          db' = [db EXCEPT !.uuids = @ \cup {clip_id},
                           !.clips = @ \cup {ClipRow(clip_id, video_id)}]
    /\ UNCHANGED other_vars

\* delete_clip
DeleteClip ==
    /\ \E clip \in db.clips : db' = [db EXCEPT !.clips = @ \ {clip}]
    /\ UNCHANGED other_vars


NextGcs ==
    \/ \E r \in Callers, gcs_path \in GcsPaths, start_sec \in GcsStarts, end_sec \in GcsEnds :
          CreateFromGcsBegin(r, gcs_path, start_sec, end_sec)
    \/ \E r \in Callers : CreateFromGcsExtractionRaises(r)
    \/ \E r \in Callers : CreateFromGcsCommitRaises(r)
    \/ \E r \in Callers : CreateFromGcsCommits(r)
    \/ UploadVideo
    \/ CreateClipRow
    \/ DeleteClip
    \/ DeleteVideo

SpecGcs == InitProxy /\ [][NextGcs]_vars


\* C25: create-from-gcs called with start_sec < 0 or end_sec <= start_sec is
\* answered 400, before the extractor is called (no signed URL, no
\* transcoder) and before any Video or Clip record is made.
C25_InvalidRangeAnswered400 ==
    \A r \in Callers :
        (/\ GcsRequest(r)
         /\ db.req[r].pc = "done"
         /\ (db.req[r].start_sec < 0 \/ db.req[r].end_sec <= db.req[r].start_sec)) =>
            /\ db.req[r].response.status = 400
            /\ ~db.req[r].extracted
            /\ ~db.req[r].video_new
            /\ db.req[r].clip_id = ""

\* C26: a create-from-gcs request that fails after adding its temporary
\* Video leaves neither that Video nor a Clip in the tables; one that succeeds
\* writes the Clip and, if it is new, the Video in the same step, and the Clip
\* refers to that Video.
C26_AllOrNothing ==
    [][\A r \in Callers :
          (GcsRequest(r) /\ db.req[r].pc = "extracting" /\ db'.req[r].pc = "done") =>
              LET request == db'.req[r]
                  clip == ClipRow(request.clip_id, request.video_id)
              IN  IF request.response.status = 201
                  THEN /\ db'.clips = db.clips \cup {clip}
                       /\ clip \notin db.clips
                       /\ request.video_id \in DOMAIN db'.videos
                       /\ db'.videos[request.video_id].original_path = GcsUri(request.gcs_path)
                       /\ request.video_new <=> request.video_id \notin DOMAIN db.videos
                       /\ \A v \in DOMAIN db.videos :
                              v \in DOMAIN db'.videos /\ db'.videos[v] = db.videos[v]
                  ELSE /\ db'.clips = db.clips
                       /\ db'.videos = db.videos
                       /\ \A c \in db'.clips : c.clip_id # request.clip_id
                       /\ request.video_new => request.video_id \notin DOMAIN db'.videos]_vars

\* one request failed after adding its Video and left nothing, another one
\* wrote its Video and its Clip
C26_Witness ==
    \E r1, r2 \in Callers :
        /\ GcsRequest(r1) /\ db.req[r1].pc = "done"
        /\ db.req[r1].response.status = 500
        /\ db.req[r1].video_new /\ db.req[r1].extracted
        /\ db.req[r1].video_id \notin DOMAIN db.videos
        /\ GcsRequest(r2) /\ db.req[r2].pc = "done"
        /\ db.req[r2].response.status = 201
        /\ db.req[r2].video_new
        /\ db.req[r2].video_id \in DOMAIN db.videos
        /\ ClipRow(db.req[r2].clip_id, db.req[r2].video_id) \in db.clips

\* C27: whatever the interleaving of concurrent create-from-gcs requests for
\* one gcs_path, at most one Video row has that object's gs:// URI as its
\* original_path, and every Clip made from the object refers to that row.
C27_OneVideoPerObject ==
    \A gcs_path \in GcsPaths :
        /\ Cardinality(VideosOf(db, gcs_path)) <= 1
        /\ \A r \in Callers :
              (/\ GcsRequest(r) /\ db.req[r].gcs_path = gcs_path
               /\ ClipRow(db.req[r].clip_id, db.req[r].video_id) \in db.clips) =>
                  VideosOf(db, gcs_path) = {db.req[r].video_id}


\* C24: after any sequence of video and clip create and delete operations,
\* every Clip row's video_id is that of an existing Video row.
C24_ClipsReferToVideos ==
    \A clip \in db.clips : clip.video_id \in DOMAIN db.videos

\* a request had written a Video and a Clip of it; the Video has been deleted
\* since and the Clip is gone with it, while a Clip of another Video is there
C24_Witness ==
    /\ db.clips # {}
    /\ \E r \in Callers :
          /\ GcsRequest(r)
          /\ db.req[r].response.status = 201
          /\ db.req[r].video_id \notin DOMAIN db.videos
          /\ \A clip \in db.clips : clip.clip_id # db.req[r].clip_id

=============================================================================
